---- MODULE Spec2Model ----
(***************************************************************************)
(* Mathegenie 4.2: curriculum-level parsing, parameter resolution, the     *)
(* availability gate, the NumberOperations generator, the semester-test    *)
(* composer and the menu navigation of MatheGenieApp.                      *)
(*                                                                         *)
(* Text is a sequence of one-character strings, so that str.split and      *)
(* int() are computed character by character as Python computes them.      *)
(***************************************************************************)
EXTENDS Integers, Sequences, FiniteSets, TLC

(***************************************************************************)
(* Bounds of the model.                                                    *)
(***************************************************************************)
\* largest year number written into a class label (the menu offers 1..13)
MaxYear == 14
\* largest semester number written into a class label (the menu offers 1..2)
MaxSemester == 3
\* resolution of one draw of the random source: a draw is a value in 0..RandRes-1
RandRes == 4

(***************************************************************************)
(* Characters and text.                                                    *)
(***************************************************************************)
DigitChars == <<"0", "1", "2", "3", "4", "5", "6", "7", "8", "9">>

IsDigit(c) == \E i \in 1..10 : DigitChars[i] = c

DigitVal(c) == (CHOOSE i \in 1..10 : DigitChars[i] = c) - 1

\* str(n) for an integer n
RECURSIVE NatStr(_)
NatStr(n) == IF n < 10 THEN <<DigitChars[n + 1]>>
             ELSE NatStr(n \div 10) \o <<DigitChars[(n % 10) + 1]>>

IntStr(n) == IF n < 0 THEN <<"-">> \o NatStr(0 - n) ELSE NatStr(n)

\* value of a non-empty sequence of digits
RECURSIVE DigitsVal(_)
DigitsVal(s) == IF Len(s) = 0 THEN 0
                ELSE 10 * DigitsVal(SubSeq(s, 1, Len(s) - 1)) + DigitVal(s[Len(s)])

AllDigits(s) == Len(s) > 0 /\ \A i \in 1..Len(s) : IsDigit(s[i])

\* int(s) raises ValueError unless s is an optional sign followed by digits
IntOk(s) == IF Len(s) > 0 /\ s[1] \in {"-", "+"}
            THEN AllDigits(Tail(s))
            ELSE AllDigits(s)

IntVal(s) == IF s[1] = "-" THEN 0 - DigitsVal(Tail(s))
             ELSE IF s[1] = "+" THEN DigitsVal(Tail(s))
             ELSE DigitsVal(s)

\* s.split(sep): the pieces between occurrences of sep, empty pieces kept
RECURSIVE SplitOn(_, _)
SplitOn(s, sep) ==
    IF \A i \in 1..Len(s) : s[i] # sep THEN <<s>>
    ELSE LET k == CHOOSE i \in 1..Len(s) :
                      s[i] = sep /\ \A j \in 1..(i - 1) : s[j] # sep
         IN  <<SubSeq(s, 1, k - 1)>> \o SplitOn(SubSeq(s, k + 1, Len(s)), sep)

\* s.split(): the pieces between runs of blanks, empty pieces dropped
SplitWS(s) == SelectSeq(SplitOn(s, " "), LAMBDA p : Len(p) > 0)

(***************************************************************************)
(* Class labels.                                                           *)
(***************************************************************************)
Klasse == <<"K", "l", "a", "s", "s", "e">>

\* f"Klasse {j}.{h}"
KlasseLabel(j, h) == Klasse \o <<" ">> \o IntStr(j) \o <<".">> \o IntStr(h)

\* MatheGenieApp.schuljahr_options
schuljahr_options == {KlasseLabel(j, h) : j \in 1..13, h \in 1..2}

\* texts standing where the year or the semester is expected
YearTexts == {IntStr(j) : j \in 0..MaxYear} \cup {<<"-", "1">>, <<"+", "7">>, <<"x">>, <<>>, <<"5", "a">>}
SemesterTexts == {IntStr(h) : h \in 0..MaxSemester} \cup {<<"x">>, <<>>}
LabelPrefixes == {Klasse \o <<" ">>, Klasse, <<>>, Klasse \o <<" ", " ">>}
LabelSeparators == {<<".">>, <<",">>, <<>>, <<".", ".">>}

\* the class labels handed to the program: the offered ones and malformed ones
Labels == {p \o y \o s \o h : p \in LabelPrefixes, y \in YearTexts,
                               s \in LabelSeparators, h \in SemesterTexts}

(***************************************************************************)
(* Topics and difficulties.                                                *)
(***************************************************************************)
all_topics == <<"Zahlenraum-Training", "Terme & Gleichungen", "Geometrie", "Statistik",
                "Stochastik", "Polynomdivision", "Vektor-Berechnung", "Textaufgaben">>

KnownTopics == {all_topics[i] : i \in 1..Len(all_topics)}

\* a topic name that no generator knows
Topics == KnownTopics \cup {"Unbekannt"}

Difficulties == {"Leicht", "Mittel", "Schwer"}

\* Python's None
None == "None"

\* drawing_info = None: a question without a sketch
NoDrawing == [shape |-> None]

\* the '?' that stands in drawing_info for the side a question asks for
Sought == [units |-> "?"]

\* q_data['user_answer'] with its type: None, the text _check_answer stores
\* for an entry float() rejects, or a float [type |-> "float", units, places]
NoAnswer == [type |-> "NoneType"]
InvalidAnswer == [type |-> "str", value |-> "Ungültige Eingabe"]

Max(a, b) == IF a >= b THEN a ELSE b
Min(a, b) == IF a <= b THEN a ELSE b

(***************************************************************************)
(* CurriculumLevel resolver.                                               *)
(***************************************************************************)
\* AufgabenGenerator._parse_class: <<year, semester>>
parse_class(name) ==
    LET parts == SplitWS(name)
    IN  IF Len(parts) > 1
        THEN LET grade_parts == SplitOn(parts[2], ".")
             IN  IF Len(grade_parts) = 2
                    /\ IntOk(grade_parts[1]) /\ IntOk(grade_parts[2])
                 THEN <<IntVal(grade_parts[1]), IntVal(grade_parts[2])>>
                 ELSE <<1, 1>>
        ELSE <<1, 1>>

\* _parse_selected_class with the total counted from year 0: year * 2 + semester
parse_selected_class_from_zero(name) ==
    LET parts == SplitWS(name)
    IN  IF Len(parts) > 1
        THEN LET grade_parts == SplitOn(parts[2], ".")
             IN  IF Len(grade_parts) = 2
                    /\ IntOk(grade_parts[1]) /\ IntOk(grade_parts[2])
                 THEN LET year == IntVal(grade_parts[1])
                          semester == IntVal(grade_parts[2])
                      IN  <<year, semester, year * 2 + semester>>
                 ELSE <<1, 1, 1>>
        ELSE <<1, 1, 1>>

\* MatheGenieApp._parse_selected_class: <<year, semester, total_semester>>
parse_selected_class(name) ==
    LET parts == SplitWS(name)
    IN  IF Len(parts) > 1
        THEN LET grade_parts == SplitOn(parts[2], ".")
             IN  IF Len(grade_parts) = 2
                    /\ IntOk(grade_parts[1]) /\ IntOk(grade_parts[2])
                 THEN LET year == IntVal(grade_parts[1])
                          semester == IntVal(grade_parts[2])
                      IN  <<year, semester, (year - 1) * 2 + semester>>
                 ELSE <<1, 1, 1>>
        ELSE <<1, 1, 1>>

(***************************************************************************)
(* Availability gate.                                                      *)
(***************************************************************************)
\* _get_min_class with the entry of Geometrie copied to Vektor-Berechnung
get_min_class_copied(t) ==
    CASE t = "Zahlenraum-Training" -> 1
      [] t = "Textaufgaben" -> 1
      [] t = "Terme & Gleichungen" -> 9
      [] t = "Geometrie" -> 9
      [] t = "Statistik" -> 13
      [] t = "Stochastik" -> 15
      [] t = "Polynomdivision" -> 19
      [] t = "Vektor-Berechnung" -> 9
      [] OTHER -> 1

\* MatheGenieApp._get_min_class
get_min_class(t) ==
    CASE t = "Zahlenraum-Training" -> 1
      [] t = "Textaufgaben" -> 1
      [] t = "Terme & Gleichungen" -> 9
      [] t = "Geometrie" -> 9
      [] t = "Statistik" -> 13
      [] t = "Stochastik" -> 15
      [] t = "Polynomdivision" -> 19
      [] t = "Vektor-Berechnung" -> 19
      [] OTHER -> 1

\* the gate of show_topic_submenu and _generate_test_questions
topic_available(t, name) == parse_selected_class(name)[3] >= get_min_class(t)

(***************************************************************************)
(* Parameter resolver.                                                     *)
(***************************************************************************)
\* step 1 of _get_params: ceiling of the number range by school year
base_max_val(year) ==
    IF year <= 2 THEN 100
    ELSE IF year <= 4 THEN 1000
    ELSE IF year <= 7 THEN 10000
    ELSE 100000

\* step 1 of _get_params: operators by school year
base_ops(year) == IF year <= 2 THEN <<"+", "-">> ELSE <<"+", "-", "*", "/">>

\* step 2 of _get_params with the Mittel range left at 10..max_val
difficulty_params_unclipped(year, d) ==
    LET max_val == base_max_val(year)
        base == [range |-> <<1, max_val>>, operators |-> base_ops(year), vars |-> 1,
                 max_terms |-> 2, decimals |-> 0, allow_negatives |-> FALSE]
    IN  IF d = "Leicht"
        THEN [base EXCEPT !.range = <<1, 9>>]
        ELSE IF d = "Mittel"
        THEN [base EXCEPT !.range = <<10, max_val>>, !.max_terms = 3,
                          !.decimals = IF year >= 5 THEN 1 ELSE 0]
        ELSE IF d = "Schwer"
        THEN [base EXCEPT !.range = <<100, max_val>>, !.max_terms = 4,
                          !.decimals = IF year >= 5 THEN 2 ELSE 0,
                          !.allow_negatives = (year >= 7)]
        ELSE base

\* step 2 of _get_params: the parameters after the difficulty adjustment
difficulty_params(year, d) ==
    LET max_val == base_max_val(year)
        base == [range |-> <<1, max_val>>, operators |-> base_ops(year), vars |-> 1,
                 max_terms |-> 2, decimals |-> 0, allow_negatives |-> FALSE]
    IN  IF d = "Leicht"
        THEN [base EXCEPT !.range = <<1, 9>>, !.max_terms = 2, !.decimals = 0,
                          !.allow_negatives = FALSE]
        ELSE IF d = "Mittel"
        THEN LET lower_bound == IF max_val < 10 THEN 1 ELSE 10
                 upper_bound == IF max_val < 10 THEN Max(1, max_val)
                                ELSE IF max_val < 99 THEN max_val ELSE 99
             IN  [base EXCEPT !.range = <<lower_bound, upper_bound>>, !.max_terms = 3,
                              !.decimals = IF year >= 5 THEN 1 ELSE 0]
        ELSE IF d = "Schwer"
        THEN LET upper_bound == max_val
                 lower0 == IF max_val < 100 THEN Max(10, max_val \div 2) ELSE 100
                 lower_bound == IF max_val < 100 /\ lower0 > upper_bound
                                THEN Max(1, upper_bound \div 2) ELSE lower0
             IN  [base EXCEPT !.range = <<lower_bound, upper_bound>>, !.max_terms = 4,
                              !.decimals = IF year >= 5 THEN 2 ELSE 0,
                              !.allow_negatives = (year >= 7)]
        ELSE base

\* step 3 of _get_params with the caps 150 and 50 exchanged
topic_params_caps_exchanged(p, year, t, d) ==
    IF t # "Zahlenraum-Training"
    THEN LET current_lower == p.range[1]
             current_upper == p.range[2]
             new_upper0 == IF d = "Schwer" THEN Min(50, current_upper)
                           ELSE Min(150, current_upper)
             new_lower0 == Min(current_lower, new_upper0)
             special == t \in {"Polynomdivision", "Vektor-Berechnung", "Stochastik"}
             new_upper == IF special
                          THEN (IF d # "Leicht" THEN Min(25, current_upper)
                                ELSE Min(9, current_upper))
                          ELSE new_upper0
             new_lower == IF special THEN 1 ELSE new_lower0
         IN  [p EXCEPT !.range = <<new_lower, new_upper>>,
                       !.allow_negatives = IF year >= 7 THEN TRUE ELSE @,
                       !.decimals = IF year >= 5 THEN 1 ELSE @]
    ELSE p

\* step 3 of _get_params without the override for Polynomdivision,
\* Vektor-Berechnung and Stochastik
topic_params_no_override(p, year, t, d) ==
    IF t # "Zahlenraum-Training"
    THEN LET current_lower == p.range[1]
             current_upper == p.range[2]
             new_upper == IF d = "Schwer" THEN Min(150, current_upper)
                          ELSE Min(50, current_upper)
             new_lower == Min(current_lower, new_upper)
         IN  [p EXCEPT !.range = <<new_lower, new_upper>>,
                       !.allow_negatives = IF year >= 7 THEN TRUE ELSE @,
                       !.decimals = IF year >= 5 THEN 1 ELSE @]
    ELSE p

\* step 3 of _get_params: the topic adjustment for every topic but Zahlenraum-Training
topic_params(p, year, t, d) ==
    IF t # "Zahlenraum-Training"
    THEN LET current_lower == p.range[1]
             current_upper == p.range[2]
             new_upper0 == IF d = "Schwer" THEN Min(150, current_upper)
                           ELSE Min(50, current_upper)
             new_lower0 == Min(current_lower, new_upper0)
             special == t \in {"Polynomdivision", "Vektor-Berechnung", "Stochastik"}
             new_upper == IF special
                          THEN (IF d # "Leicht" THEN Min(25, current_upper)
                                ELSE Min(9, current_upper))
                          ELSE new_upper0
             new_lower == IF special THEN 1 ELSE new_lower0
         IN  [p EXCEPT !.range = <<new_lower, new_upper>>,
                       !.allow_negatives = IF year >= 7 THEN TRUE ELSE @,
                       !.decimals = IF year >= 5 THEN 1 ELSE @]
    ELSE p

\* _get_params without the final reset of decimals for Zahlenraum-Training, Mittel
get_params_no_reset(name, t, d) ==
    LET year == parse_class(name)[1]
    IN  topic_params(difficulty_params(year, d), year, t, d)

\* _get_params with negatives allowed from year 7 for Mittel as well
get_params_mittel_negative(name, t, d) ==
    LET year == parse_class(name)[1]
        p == topic_params(difficulty_params(year, d), year, t, d)
    IN  IF d = "Mittel" /\ t = "Zahlenraum-Training"
        THEN [p EXCEPT !.decimals = 0, !.allow_negatives = (year >= 7)]
        ELSE p

\* AufgabenGenerator._get_params
get_params(name, t, d) ==
    LET year == parse_class(name)[1]
        p == topic_params(difficulty_params(year, d), year, t, d)
    IN  IF d = "Mittel" /\ t = "Zahlenraum-Training"
        THEN [p EXCEPT !.decimals = 0]
        ELSE p

(***************************************************************************)
(* The random source.  A call random.randint(a, b) is resolved by a draw u  *)
(* in 0..RandRes-1 that is scaled onto a..b with both ends reachable; a     *)
(* call random.choice(seq) is resolved by a draw that indexes seq.          *)
(***************************************************************************)
RandDraws == 0..(RandRes - 1)

\* random.randint(a, b) for the draw u; raises ValueError when a > b
randint(a, b, u) == a + (u * (b - a)) \div (RandRes - 1)

\* random.choice(seq) for the draw u
choice(seq, u) == seq[(u % Len(seq)) + 1]

(***************************************************************************)
(* Topic generator: Zahlenraum-Training.                                   *)
(***************************************************************************)
\* list.remove(x): the list without the first occurrence of x
RemoveFirst(seq, x) ==
    IF \A i \in 1..Len(seq) : seq[i] # x THEN seq
    ELSE LET k == CHOOSE i \in 1..Len(seq) :
                      seq[i] = x /\ \A j \in 1..(i - 1) : seq[j] # x
         IN  SubSeq(seq, 1, k - 1) \o SubSeq(seq, k + 1, Len(seq))

\* op_map / multi_op_map of _generate_zahlenraum on integers
apply_op(op, a, b) ==
    CASE op = "+" -> a + b
      [] op = "-" -> a - b
      [] op = "*" -> a * b

\* the loop of _generate_zahlenraum with every drawn operator kept as drawn
RECURSIVE zahlenraum_chain_as_drawn(_, _, _, _, _)
zahlenraum_chain_as_drawn(nums, ops, allow_negatives, i, acc) ==
    IF i > Len(ops) THEN acc
    ELSE zahlenraum_chain_as_drawn(nums, ops, allow_negatives, i + 1,
             [ops |-> Append(acc.ops, ops[i]),
              vals |-> Append(acc.vals,
                              apply_op(ops[i], acc.vals[Len(acc.vals)], nums[i + 1]))])

\* the loop of _generate_zahlenraum over the terms of a chain, from term i on;
\* acc.ops are the operators written into the question, acc.vals the running values
RECURSIVE zahlenraum_chain(_, _, _, _, _)
zahlenraum_chain(nums, ops, allow_negatives, i, acc) ==
    IF i > Len(ops) THEN acc
    ELSE LET current_val == acc.vals[Len(acc.vals)]
             num2 == nums[i + 1]
             op == IF ops[i] = "-" /\ ~allow_negatives /\ current_val < num2
                   THEN "+" ELSE ops[i]
             next_val == apply_op(op, current_val, num2)
         IN  zahlenraum_chain(nums, ops, allow_negatives, i + 1,
                              [ops |-> Append(acc.ops, op),
                               vals |-> Append(acc.vals, next_val)])

\* AufgabenGenerator._generate_zahlenraum with p the value of self._get_params()
\* and the draws r (r.nums resolve the randint calls, r.ops the choice calls):
\* the operands and operators written into the question, the running values
\* of the solution steps, the answer
generate_zahlenraum(p, r) ==
    LET num_terms == p.max_terms
        lower_bound == p.range[1]
        upper_bound == p.range[2]
        min_val == IF p.allow_negatives THEN 0 - upper_bound ELSE lower_bound
    IN  IF num_terms > 2
        THEN LET nums == [i \in 1..num_terms |-> randint(min_val, upper_bound, r.nums[i])]
                 ops == [i \in 1..(num_terms - 1) |-> choice(<<"+", "-">>, r.ops[i])]
                 run == zahlenraum_chain(nums, ops, p.allow_negatives, 1,
                                         [ops |-> <<>>, vals |-> <<nums[1]>>])
             IN  [kind |-> "chain", nums |-> nums, ops |-> run.ops, vals |-> run.vals,
                  answer |-> run.vals[Len(run.vals)], drawing_info |-> NoDrawing]
        ELSE LET ops1 == IF p.decimals = 0 THEN RemoveFirst(p.operators, "/")
                         ELSE p.operators
                 operators == IF Len(ops1) = 0 THEN <<"+", "-">> ELSE ops1
                 op == choice(operators, r.ops[1])
             IN  IF op = "/"
                 THEN LET safe_lower == Max(2, lower_bound)
                          safe_upper0 == Max(safe_lower + 1, upper_bound \div 2)
                          safe_upper == IF safe_lower > safe_upper0 THEN safe_lower
                                        ELSE safe_upper0
                          answer == randint(safe_lower, safe_upper, r.nums[1])
                          divisor == randint(2, 9, r.nums[2])
                          num1 == answer * divisor
                      IN  [kind |-> "division", nums |-> <<num1, divisor>>, ops |-> <<op>>,
                           vals |-> <<answer>>, answer |-> answer, drawing_info |-> NoDrawing]
                 ELSE LET n1 == randint(min_val, upper_bound, r.nums[1])
                          n2 == randint(min_val, upper_bound, r.nums[2])
                          swap == op = "-" /\ ~p.allow_negatives /\ n1 < n2
                          num1 == IF swap THEN n2 ELSE n1
                          num2 == IF swap THEN n1 ELSE n2
                          answer == apply_op(op, num1, num2)
                      IN  [kind |-> "binary", nums |-> <<num1, num2>>, ops |-> <<op>>,
                           vals |-> <<answer>>, answer |-> answer, drawing_info |-> NoDrawing]

(***************************************************************************)
(* Topic generators: Terme & Gleichungen, Polynomdivision; dispatch.       *)
(***************************************************************************)
\* the value _generate_terme substitutes for the variable number v of var_list
\* (x = 2, y = 3, a = x_val, b = y_val)
var_value(v) == choice(<<2, 3, 2, 3>>, v)

\* _generate_terme that draws every coefficient from -max_coeff .. max_coeff
generate_terme_signed(p, u) ==
    LET max_coeff == p.range[2]
        coeff == [k \in 1..p.max_terms |-> randint(0 - max_coeff, max_coeff, u[2 * k] % RandRes)]
        with_var == [k \in 1..p.max_terms |-> (u[2 * k + 1] % 10) < 7]
        value == [k \in 1..p.max_terms |->
                     IF with_var[k] THEN coeff[k] * var_value(u[1]) ELSE coeff[k]]
        total[k \in 0..p.max_terms] == IF k = 0 THEN 0 ELSE total[k - 1] + value[k]
    IN  [kind |-> "term", nums |-> coeff, ops |-> with_var, vals |-> value,
         answer |-> total[p.max_terms], drawing_info |-> NoDrawing]

\* AufgabenGenerator._generate_terme with p the value of self._get_params():
\* u[1] picks the variable, u[2k] the coefficient of term k and u[2k+1] whether
\* term k carries the variable (random.random() < 0.7)
generate_terme(p, u) ==
    LET max_coeff == p.range[2]
        coeff_min == IF p.allow_negatives THEN 0 - max_coeff ELSE p.range[1]
        coeff == [k \in 1..p.max_terms |-> randint(coeff_min, max_coeff, u[2 * k] % RandRes)]
        with_var == [k \in 1..p.max_terms |-> (u[2 * k + 1] % 10) < 7]
        value == [k \in 1..p.max_terms |->
                     IF with_var[k] THEN coeff[k] * var_value(u[1]) ELSE coeff[k]]
        total[k \in 0..p.max_terms] == IF k = 0 THEN 0 ELSE total[k - 1] + value[k]
    IN  [kind |-> "term", nums |-> coeff, ops |-> with_var, vals |-> value,
         answer |-> total[p.max_terms], drawing_info |-> NoDrawing]

\* AufgabenGenerator._generate_polynomdivision: the remainder P(val)
generate_polynomdivision(p, u) ==
    LET a == randint(1, 5, u[1] % RandRes)
        b == randint(-5, 5, u[2] % RandRes)
        c == randint(-5, 5, u[3] % RandRes)
        val == randint(1, 4, u[4] % RandRes)
        answer == a * (val * val) + b * val + c
    IN  [kind |-> "remainder", nums |-> <<a, b, c, val>>, ops |-> <<>>,
         vals |-> <<a * (val * val), b * val, c>>, answer |-> answer,
         drawing_info |-> NoDrawing]

(***************************************************************************)
(* Decimal numbers.  A float the generators compute exactly in decimal is  *)
(* the record [units |-> n, places |-> k], standing for n / 10^k.          *)
(***************************************************************************)
RECURSIVE Pow(_, _)
Pow(b, e) == IF e = 0 THEN 1 ELSE b * Pow(b, e - 1)

dec(n, k) == [units |-> n, places |-> k]

\* Python's round(num / den, d) for den > 0: the nearest multiple of 10^-d,
\* a tie goes to the even neighbour
round_ratio(num, den, d) ==
    LET scaled == num * Pow(10, d)
        q == scaled \div den
        r == scaled % den
    IN  dec(IF 2 * r > den \/ (2 * r = den /\ q % 2 = 1) THEN q + 1 ELSE q, d)

\* round(x, d) that returns x as it is
round_dec_skipped(x, d) == x

\* Python's round(x, d) for the decimal x
round_dec(x, d) == round_ratio(x.units, Pow(10, x.places), d)

\* the largest r in lo..hi with r * r <= n; mid is bound over a one-element
\* set so that it is computed once for each step
RECURSIVE isqrt_between(_, _, _)
isqrt_between(n, lo, hi) ==
    IF lo >= hi THEN lo
    ELSE CHOOSE r \in {IF mid * mid <= n THEN isqrt_between(n, mid, hi)
                       ELSE isqrt_between(n, lo, mid - 1) :
                       mid \in {(lo + hi + 1) \div 2}} : TRUE

\* round(math.sqrt(s), d): half of floor(2 * sqrt(s) * 10^d) + 1
round_sqrt(s, d) ==
    CHOOSE r \in {dec((isqrt_between(n, 0, 46340) + 1) \div 2, d) :
                     n \in {4 * s * Pow(100, d)}} : TRUE

\* math.comb(n, k)
RECURSIVE comb(_, _)
comb(n, k) == IF k = 0 \/ k = n THEN 1 ELSE comb(n - 1, k - 1) + comb(n - 1, k)

(***************************************************************************)
(* Generators of Geometrie, Statistik and Vektor-Berechnung.  The field    *)
(* answer is the value the generator returns, the field result the final   *)
(* result its solution_steps state.                                        *)
(***************************************************************************)
\* available_shapes without the conditions on the year
geometrie_shapes_any_year(year) ==
    <<"Rechteck", "Kreis", "Dreieck", "Trapez", "Würfel", "Kugel", "Quader",
      "Zylinder", "Kegel">>

\* available_shapes of _generate_geometrie
geometrie_shapes(year) ==
    <<"Rechteck", "Kreis", "Dreieck">>
        \o (IF year >= 6 THEN <<"Trapez">> ELSE <<>>)
        \o (IF year >= 7 THEN <<"Würfel", "Kugel", "Quader", "Zylinder", "Kegel">> ELSE <<>>)

\* the value of a shape measured with pi_val = 3.14159: it is kept as the
\* formula, the dimensions and the number of places it is rounded to
rounded_pi(shape, q_type, dims, d) ==
    [rounded |-> d, shape |-> shape, q_type |-> q_type, dims |-> dims]

\* AufgabenGenerator._generate_geometrie with p the value of self._get_params():
\* u[1] picks the shape, the following draws resolve the calls of the shape's
\* branch in order
generate_geometrie(p, year, u) ==
    LET shape == choice(geometrie_shapes(year), u[1])
        max_dim == Max(1, p.range[2])
        r2 == u[2] % RandRes
        r3 == u[3] % RandRes
        r4 == u[4] % RandRes
        exact(dims, answer) ==
            [kind |-> shape, nums |-> dims, answer |-> round_dec(answer, p.decimals),
             result |-> answer, drawing_info |-> [shape |-> shape, dims |-> dims]]
        with_pi(dims, q_type) ==
            [kind |-> shape, nums |-> dims,
             answer |-> rounded_pi(shape, q_type, dims, p.decimals),
             result |-> rounded_pi(shape, q_type, dims, p.decimals),
             drawing_info |-> [shape |-> shape, dims |-> dims]]
    IN  CASE shape = "Rechteck" ->
                 LET length == randint(1, max_dim, r2)
                     width == randint(1, length, r3)
                 IN  IF choice(<<"Umfang", "Fläche">>, u[4]) = "Umfang"
                     THEN exact(<<length, width>>, dec(2 * (length + width), 0))
                     ELSE exact(<<length, width>>, dec(length * width, 0))
          [] shape = "Kreis" ->
                 with_pi(<<randint(1, Max(2, max_dim \div 2), r2)>>,
                         choice(<<"Umfang", "Fläche">>, u[3]))
          [] shape = "Dreieck" ->
                 LET base == randint(1, max_dim, r2)
                     height == randint(1, Max(2, base), r3)
                 IN  exact(<<base, height>>, dec(5 * base * height, 1))
          [] shape = "Trapez" ->
                 LET a == randint(1, max_dim, r2)
                     c == randint(1, a, r3)
                     h == randint(1, max_dim, r4)
                 IN  exact(<<a, c, h>>, dec(5 * (a + c) * h, 1))
          [] shape = "Würfel" ->
                 LET a == randint(1, Max(2, max_dim \div 4), r2)
                 IN  IF choice(<<"Volumen", "Oberfläche">>, u[3]) = "Volumen"
                     THEN exact(<<a>>, dec(a * a * a, 0))
                     ELSE exact(<<a>>, dec(6 * (a * a), 0))
          [] shape = "Quader" ->
                 LET l == randint(1, Max(2, max_dim \div 3), r2)
                     w == randint(1, Max(2, max_dim \div 3), r3)
                     h == randint(1, Max(2, max_dim \div 3), r4)
                 IN  IF choice(<<"Volumen", "Oberfläche">>, u[5]) = "Volumen"
                     THEN exact(<<l, w, h>>, dec(l * w * h, 0))
                     ELSE exact(<<l, w, h>>, dec(2 * (l * w + l * h + w * h), 0))
          [] shape \in {"Zylinder", "Kegel"} ->
                 with_pi(<<randint(1, Max(2, max_dim \div 4), r2),
                           randint(1, Max(2, max_dim \div 2), r3)>>,
                         choice(<<"Volumen", "Oberfläche">>, u[4]))
          [] OTHER ->
                 with_pi(<<randint(1, Max(2, max_dim \div 4), r2)>>,
                         choice(<<"Volumen", "Oberfläche">>, u[3]))

\* a median that takes the upper of the two middle values
statistik_median_upper(data) ==
    dec(SortSeq(data, LAMBDA a, b : a < b)[Len(data) \div 2 + 1], 0)

\* the Median branch of _generate_statistik: sorted(data), the middle value
\* for an odd n, half the sum of the two middle values for an even n
statistik_median(data) ==
    LET data_sorted == SortSeq(data, LAMBDA a, b : a < b)
        n == Len(data_sorted)
    IN  IF n % 2 = 1
        THEN dec(data_sorted[n \div 2 + 1], 0)
        ELSE dec(5 * (data_sorted[n \div 2] + data_sorted[n \div 2 + 1]), 1)

\* AufgabenGenerator._generate_statistik: u[1] draws data_size, u[2] ..
\* u[data_size + 1] the data and u[data_size + 2] the question type.  The
\* mean is returned rounded, the median as it is computed.
generate_statistik(p, u) ==
    LET data_size == randint(5, 10, u[1] % RandRes)
        max_data_val == Max(1, Max(5, p.range[2] \div 2))
        data == [k \in 1..data_size |-> randint(1, max_data_val, u[1 + k] % RandRes)]
        q_type == choice(<<"Mittelwert", "Median">>, u[data_size + 2])
        n == Len(data)
        sum[k \in 0..n] == IF k = 0 THEN 0 ELSE sum[k - 1] + data[k]
        mean == round_ratio(sum[n], n, p.decimals)
        median == statistik_median(data)
    IN  [kind |-> q_type, nums |-> data,
         answer |-> IF q_type = "Mittelwert" THEN mean ELSE median,
         result |-> IF q_type = "Mittelwert" THEN mean ELSE median,
         drawing_info |-> [shape |-> "BarChart", data |-> data]]

\* AufgabenGenerator._generate_vektoren for the difficulty d: the components
\* are drawn from params['range'] whatever allow_negatives is
generate_vektoren(p, d, u) ==
    LET dim == IF d = "Schwer" THEN 3 ELSE 2
        v1 == [k \in 1..dim |-> randint(p.range[1], p.range[2], u[k] % RandRes)]
        q_type == choice(<<"Betrag", "Skalarprodukt">>, u[dim + 1])
        v2 == [k \in 1..dim |-> randint(p.range[1], p.range[2], u[dim + 1 + k] % RandRes)]
        sum_sq[k \in 0..dim] == IF k = 0 THEN 0 ELSE sum_sq[k - 1] + v1[k] * v1[k]
        dot[k \in 0..dim] == IF k = 0 THEN 0 ELSE dot[k - 1] + v1[k] * v2[k]
        answer == IF q_type = "Betrag" THEN round_sqrt(sum_sq[dim], p.decimals)
                  ELSE round_dec(dec(dot[dim], 0), p.decimals)
    IN  [kind |-> q_type, nums |-> IF q_type = "Betrag" THEN v1 ELSE v1 \o v2,
         answer |-> answer, result |-> answer, drawing_info |-> NoDrawing]

\* tasks_by_year of _generate_textaufgaben and the list selected for the year
\* (years below 1 take the fallback tasks_by_year[10])
text_tasks(year) ==
    CASE year >= 10 -> <<"linear_eq", "bernoulli", "optimization">>
      [] year \in {1, 2} -> <<"basic_arithmetic">>
      [] year = 3 -> <<"simple_multiplication">>
      [] year \in {4, 5} -> <<"multi_step">>
      [] year = 6 -> <<"zinsrechnung">>
      [] year = 7 -> <<"pythagoras">>
      [] year = 8 -> <<"pythagoras", "zinsrechnung">>
      [] year = 9 -> <<"linear_eq", "bernoulli">>
      [] OTHER -> <<"linear_eq", "bernoulli", "optimization">>

\* the items of task 6 (Die Einkäufe) of _gen_text_simple_multiplication
einkauf_items ==
    <<<<"T", "ü", "t", "e", "n", " ", "M", "i", "l", "c", "h">>,
      <<"H", "e", "f", "t", "e">>,
      <<"S", "c", "h", "o", "k", "o", "r", "i", "e", "g", "e", "l">>>>

\* AufgabenGenerator._gen_text_simple_multiplication: u[2] picks the task
\* type, the following draws resolve the task's calls in order.  The question
\* text of task 6 reads item.split()[1], which raises IndexError for an item
\* of one word.
gen_text_simple_multiplication(u) ==
    LET task_type == choice(<<"divide", "multiply", "multi-step-money">>, u[2])
    IN  CASE task_type = "divide" ->
                 LET total_kids == randint(3, 5, u[4] % RandRes)
                     answer == randint(4, 8, u[5] % RandRes)
                 IN  [raises |-> FALSE, kind |-> task_type,
                      nums |-> <<total_kids, total_kids * answer>>, answer |-> answer,
                      drawing_info |-> NoDrawing]
          [] task_type = "multiply" ->
                 LET prop_per_item == choice(<<2, 4, 4>>, u[3])
                     num_items == randint(5, 9, u[4] % RandRes)
                 IN  [raises |-> FALSE, kind |-> task_type,
                      nums |-> <<num_items, prop_per_item>>,
                      answer |-> num_items * prop_per_item, drawing_info |-> NoDrawing]
          [] OTHER ->
                 LET item == choice(einkauf_items, u[3])
                     drawn_price == randint(2, 3, u[4] % RandRes)
                     drawn_items == randint(3, 4, u[5] % RandRes)
                     drawn_paid == choice(<<10, 20>>, u[6])
                     reset == drawn_items * drawn_price >= drawn_paid
                     price == IF reset THEN 2 ELSE drawn_price
                     num_items == IF reset THEN 3 ELSE drawn_items
                     paid_with == IF reset THEN 10 ELSE drawn_paid
                 IN  [raises |-> Len(SplitWS(item)) < 2, kind |-> task_type,
                      nums |-> <<num_items, price, paid_with>>,
                      answer |-> paid_with - num_items * price, drawing_info |-> NoDrawing]

\* what _gen_text_linear_eq returns for the prices x and y: the answer is x,
\* whatever quantities the while loop settles on
linear_eq_question(x, y) ==
    [raises |-> FALSE, kind |-> "linear_eq", nums |-> <<x, y>>,
     answer |-> round_dec(x, 2), drawing_info |-> NoDrawing]

\* the prices round(random.uniform(1.5, 3.5), 2) and
\* round(random.uniform(1.0, 2.0), 2), counted in hundredths
linear_eq_x_price(r) == dec(randint(150, 350, r), 2)
linear_eq_y_price(r) == dec(randint(100, 200, r), 2)

\* AufgabenGenerator._gen_text_linear_eq
gen_text_linear_eq(u) ==
    linear_eq_question(linear_eq_x_price(u[2] % RandRes), linear_eq_y_price(u[3] % RandRes))

\* AufgabenGenerator._gen_text_bernoulli: comb(n, k) * p^k * (1 - p)^(n - k)
\* for p = 1/6 (Wuerfel) or p = 1/2 (Muenze), rounded to 4 places
gen_text_bernoulli(u) ==
    LET n == randint(4, 6, u[2] % RandRes)
        k == randint(2, n - 1, u[3] % RandRes)
        p_nenner == IF choice(<<"Wuerfel", "Muenze">>, u[4]) = "Wuerfel" THEN 6 ELSE 2
    IN  [raises |-> FALSE, kind |-> "bernoulli", nums |-> <<n, k, p_nenner>>,
         answer |-> round_ratio(comb(n, k) * Pow(p_nenner - 1, n - k), Pow(p_nenner, n), 4),
         drawing_info |-> NoDrawing]

\* the triples _gen_text_pythagoras chooses its "schöne" numbers from
pythagoras_triples == <<<<3, 4, 5>>, <<6, 8, 10>>, <<5, 12, 13>>, <<8, 15, 17>>>>

\* a sketch of the ladder that marks no side as sought
pythagoras_sketch_all_given(a, b, c, find) ==
    [shape |-> "DreieckRecht", a |-> a, b |-> b, c |-> c]

\* the drawing_info of _gen_text_pythagoras: '?' for the side named by find,
\* the other two sides as the question states them
pythagoras_sketch(a, b, c, find) ==
    [shape |-> "DreieckRecht",
     a |-> IF find = "a" THEN Sought ELSE a,
     b |-> IF find = "b" THEN Sought ELSE b,
     c |-> IF find = "c" THEN Sought ELSE c]

\* AufgabenGenerator._gen_text_pythagoras: u[2] and u[3] draw a and b, u[4]
\* is random.random() < 0.5; with it u[5] picks the triple, u[6] the scale and
\* u[7] the side to find, without it c is rounded to an int, b recomputed
\* and u[5] picks the side to find.  The sides are decimals: ints as they
\* are, the recomputed b with one place.  hundred_b2 is 100 * b^2.
gen_text_pythagoras(u) ==
    LET drawn_a == randint(3, 10, u[2] % RandRes)
        drawn_b == randint(drawn_a + 1, 15, u[3] % RandRes)
        nice == u[4] % 2 = 0
        triple == choice(pythagoras_triples, u[5])
        scale == randint(1, 3, u[6] % RandRes)
        int_a == IF nice THEN triple[1] * scale ELSE drawn_a
        int_c == IF nice THEN triple[3] * scale
                 ELSE round_sqrt(drawn_a * drawn_a + drawn_b * drawn_b, 0).units
        a == dec(int_a, 0)
        b == IF nice THEN dec(triple[2] * scale, 0)
             ELSE round_sqrt(int_c * int_c - int_a * int_a, 1)
        c == dec(int_c, 0)
        hundred_b2 == IF nice THEN 100 * b.units * b.units ELSE b.units * b.units
        find == choice(<<"a", "b", "c">>, IF nice THEN u[7] ELSE u[5])
        hundred_s == CASE find = "a" -> 100 * int_c * int_c - hundred_b2
                       [] find = "b" -> 100 * (int_c * int_c - int_a * int_a)
                       [] OTHER -> 100 * int_a * int_a + hundred_b2
    IN  [raises |-> FALSE, kind |-> "pythagoras", nums |-> <<a, b, c>>,
         answer |-> dec(round_sqrt(hundred_s, 0).units, 1),
         drawing_info |-> pythagoras_sketch(a, b, c, find)]

\* AufgabenGenerator._generate_textaufgaben: u[1] picks the task function of
\* the year; the answer of a task whose arithmetic is not detailed here is
\* kept as the draws it is computed from
generate_textaufgaben(name, u) ==
    LET year == parse_class(name)[1]
        task_function == choice(text_tasks(year), u[1])
    IN  CASE task_function = "simple_multiplication" -> gen_text_simple_multiplication(u)
          [] task_function = "linear_eq" -> gen_text_linear_eq(u)
          [] task_function = "bernoulli" -> gen_text_bernoulli(u)
          [] task_function = "pythagoras" -> gen_text_pythagoras(u)
          [] OTHER -> [raises |-> FALSE, kind |-> task_function, nums |-> <<>>,
                       answer |-> [drawn |-> SubSeq(u, 2, 4)], drawing_info |-> NoDrawing]

\* the first randint call of the topic's generator whose range comes from the
\* resolved parameters would raise ValueError (lower end above upper end)
randint_raises(t, p) ==
    CASE t \in {"Zahlenraum-Training", "Terme & Gleichungen"} ->
             (IF p.allow_negatives THEN 0 - p.range[2] ELSE p.range[1]) > p.range[2]
      [] t = "Vektor-Berechnung" -> p.range[1] > p.range[2]
      [] OTHER -> FALSE

\* generator_raises with a _generate_questions that raises for a topic it does
\* not know
generator_raises_unknown(t, d, name, u) ==
    \/ t \notin KnownTopics
    \/ randint_raises(t, get_params(name, t, d))
    \/ t = "Textaufgaben" /\ generate_textaufgaben(name, u).raises

\* the generator of topic t raises for the label name and the draws u, so that
\* AufgabenGenerator.__init__ does not return
generator_raises(t, d, name, u) ==
    \/ randint_raises(t, get_params(name, t, d))
    \/ t = "Textaufgaben" /\ generate_textaufgaben(name, u).raises

\* one pass of the loop of AufgabenGenerator._generate_questions that does not
\* raise: the question number i of topic t, for the draws u.  The fields topic
\* and difficulty record the generator the question comes from, steps_result
\* the final result the solution_steps state (None when they state none).  The
\* answer of a generator whose arithmetic is not detailed here is kept as the
\* draws it is computed from.
generate_question(i, t, d, name, draws) ==
    LET from_generator(p, year, u) ==
            CASE t = "Zahlenraum-Training" ->
                     generate_zahlenraum(p, [nums |-> [k \in 1..4 |-> u[k] % RandRes],
                                             ops |-> [k \in 1..3 |-> u[4 + k]]])
              [] t = "Terme & Gleichungen" -> generate_terme(p, u)
              [] t = "Polynomdivision" -> generate_polynomdivision(p, u)
              [] t \in {"Geometrie", "Statistik", "Vektor-Berechnung"} ->
                     CHOOSE q \in
                         {[kind |-> r.kind, nums |-> r.nums, ops |-> <<>>, vals |-> <<>>,
                           answer |-> r.answer, result |-> r.result,
                           drawing_info |-> r.drawing_info] :
                          r \in {CASE t = "Geometrie" -> generate_geometrie(p, year, u)
                                   [] t = "Statistik" -> generate_statistik(p, u)
                                   [] OTHER -> generate_vektoren(p, d, u)}} : TRUE
              [] t = "Stochastik" ->
                     [kind |-> t, nums |-> <<>>, ops |-> <<>>, vals |-> <<>>,
                      answer |-> [drawn |-> SubSeq(u, 1, 3)], drawing_info |-> NoDrawing]
              [] t = "Textaufgaben" ->
                     CHOOSE q \in
                         {[kind |-> r.kind, nums |-> r.nums, ops |-> <<>>, vals |-> <<>>,
                           answer |-> r.answer, drawing_info |-> r.drawing_info] :
                          r \in {generate_textaufgaben(name, u)}} : TRUE
              [] OTHER ->
                     [kind |-> "Fehler: Unbekanntes Thema.", nums |-> <<>>, ops |-> <<>>,
                      vals |-> <<>>, answer |-> 0, drawing_info |-> NoDrawing]
        generated_by(p, year, u) ==
            CHOOSE question \in
                {[id |-> i, topic |-> t, difficulty |-> d,
                  kind |-> q.kind, nums |-> q.nums, ops |-> q.ops, vals |-> q.vals,
                  correct_answer |-> q.answer, user_answer |-> NoAnswer,
                  steps_result |->
                      CASE t \in {"Geometrie", "Statistik", "Vektor-Berechnung"} -> q.result
                        [] t \in KnownTopics -> q.answer
                        [] OTHER -> None,
                  drawing_info |-> q.drawing_info] :
                 q \in {from_generator(p, year, u)}} : TRUE
    IN  CHOOSE question \in
            {generated_by(p, year, u) :
             p \in {get_params(name, t, d)}, year \in {parse_class(name)[1]},
             u \in {draws}} : TRUE

(***************************************************************************)
(* Test composer.  The process-wide random source is the pair of a seed    *)
(* and the number of values drawn so far; its next value is a function of  *)
(* both.                                                                   *)
(***************************************************************************)
\* the value number n of the random stream started with seed
random_raw(seed, n) == ((seed + 3) * (n * n + 7 * n + 13) + n * (seed * seed + 1)) % 251

\* the values number from + 1 .. from + k of the stream
random_draws(seed, from, k) == [j \in 1..k |-> random_raw(seed, from + j)]

\* specs of _generate_test_questions
test_specs == <<<<"Leicht", 15>>, <<"Mittel", 5>>, <<"Schwer", 3>>>>

\* the difficulty of each of the questions in the order the loops produce them
RECURSIVE difficulty_plan(_)
difficulty_plan(specs) ==
    IF Len(specs) = 0 THEN <<>>
    ELSE [k \in 1..specs[1][2] |-> specs[1][1]] \o difficulty_plan(Tail(specs))

\* available_topics with every topic admitted
available_topics_all(name) == all_topics

\* available_topics of _generate_test_questions, with its fallback
available_topics(name) ==
    LET current_total_semester == parse_selected_class(name)[3]
        admitted == SelectSeq(all_topics,
                              LAMBDA t : current_total_semester >= get_min_class(t))
    IN  IF Len(admitted) = 0 THEN <<"Zahlenraum-Training">> ELSE admitted

\* the element of a one-element set
TheOne(S) == CHOOSE v \in S : TRUE

\* random.shuffle that copies x[j] over x[i] instead of exchanging them
RECURSIVE shuffle_overwrite(_, _, _)
shuffle_overwrite(x, i, u) ==
    IF i < 2 THEN x
    ELSE TheOne({shuffle_overwrite([y EXCEPT ![i] = y[(u[i] % i) + 1]], i - 1, u) : y \in {x}})

\* random.shuffle: for i from the last position down to the second, exchange
\* x[i] with x[j], j drawn among the positions up to i
RECURSIVE shuffle(_, _, _)
shuffle(x, i, u) ==
    IF i < 2 THEN x
    ELSE TheOne({shuffle([y EXCEPT ![i] = y[(u[i] % i) + 1], ![(u[i] % i) + 1] = y[i]],
                         i - 1, u) : y \in {x}})

\* step 4 of _generate_test_questions: q['id'] = i + 1
renumber(x) == [i \in 1..Len(x) |-> [x[i] EXCEPT !.id = i]]

\* steps 1 and 2 of _generate_test_questions: the questions in generation
\* order, up to the first generator call that raises
generate_test_list(selected, name, seed, from) ==
    LET topics == available_topics(selected)
        plan == difficulty_plan(test_specs)
        draws(k) == random_draws(seed, from + 13 * (k - 1), 13)
        picked(k) == choice(topics, draws(k)[13])
        raised(k) == generator_raises(picked(k), plan[k], name, draws(k))
        good == {k \in 0..Len(plan) : \A m \in 1..k : ~raised(m)}
        n == CHOOSE k \in good : \A m \in good : m <= k
    IN  [raised |-> n < Len(plan),
         list |-> [k \in 1..n |-> generate_question(1, picked(k), plan[k], name, draws(k))]]

\* no session window is open
NoSession == [kind |-> None]

\* no modal dialog is open
NoDialog == [kind |-> None]

(***************************************************************************)
(* Numbers as text.  A Python number is the record [type, units, places]:  *)
(* the int units (places = 0), or the float units / 10^places.  Text is a  *)
(* sequence of characters.                                                 *)
(***************************************************************************)
int_number(n) == [type |-> "int", units |-> n, places |-> 0]
float_number(n, k) == [type |-> "float", units |-> n, places |-> k]

\* round(number, 5): an int and a float of up to 5 places are left as they are
round5(x) ==
    IF x.places <= 5 THEN x
    ELSE float_number(round_ratio(x.units, Pow(10, x.places), 5).units, 5)

\* the digits of n, at least k of them (zeros in front)
RECURSIVE zero_padded(_, _)
zero_padded(n, k) ==
    IF k <= 1 /\ n < 10 THEN <<DigitChars[n + 1]>>
    ELSE Append(zero_padded(n \div 10, k - 1), DigitChars[(n % 10) + 1])

\* f"{number:f}": sign, integer digits, '.', six fraction digits
fixed_text(x) ==
    LET mag == IF x.units < 0 THEN 0 - x.units ELSE x.units
        whole == mag \div Pow(10, x.places)
        frac == IF x.places = 0 THEN <<>> ELSE zero_padded(mag % Pow(10, x.places), x.places)
    IN  (IF x.units < 0 THEN <<"-">> ELSE <<>>) \o NatStr(whole) \o <<".">>
            \o frac \o [k \in 1..(6 - x.places) |-> "0"]

\* s.rstrip('0')
RECURSIVE rstrip_zeros(_)
rstrip_zeros(s) ==
    IF Len(s) > 0 /\ s[Len(s)] = "0" THEN rstrip_zeros(SubSeq(s, 1, Len(s) - 1)) ELSE s

\* the digits without a separator
grouped_not(digits) == digits

\* f"{int(digits):,}": the digits in groups of three, a ',' between the groups
RECURSIVE grouped(_)
grouped(digits) ==
    IF Len(digits) <= 3 THEN digits
    ELSE grouped(SubSeq(digits, 1, Len(digits) - 3)) \o <<",">>
             \o SubSeq(digits, Len(digits) - 2, Len(digits))

\* s.replace(old, new) for a character old and a text new
RECURSIVE replace(_, _, _)
replace(s, old, new) ==
    IF Len(s) = 0 THEN <<>>
    ELSE (IF s[1] = old THEN new ELSE <<s[1]>>) \o replace(Tail(s), old, new)

\* format_german(number) for an int or a float
format_german(number) ==
    LET rounded == round5(number)
        stripped == rstrip_zeros(fixed_text(rounded))
        s == IF stripped[Len(stripped)] = "." THEN SubSeq(stripped, 1, Len(stripped) - 1)
             ELSE stripped
        parts == SplitOn(s, ".")
        decimal_part == IF Len(parts) > 1 THEN parts[2] ELSE <<>>
        negative == Len(parts[1]) > 0 /\ parts[1][1] = "-"
        sign == IF negative THEN <<"-">> ELSE <<>>
        integer_part == IF negative THEN Tail(parts[1]) ELSE parts[1]
        integer_part_formatted == grouped(NatStr(DigitsVal(integer_part)))
        integer_part_german == replace(integer_part_formatted, ",", <<".">>)
    IN  IF Len(decimal_part) > 0
        THEN sign \o integer_part_german \o <<",">> \o decimal_part
        ELSE IF rounded.type = "float"
             THEN sign \o integer_part_german \o <<",", "0">>
             ELSE sign \o integer_part_german

\* s.strip() for a text whose white space is blanks
RECURSIVE strip(_)
strip(s) ==
    IF Len(s) > 0 /\ s[1] = " " THEN strip(Tail(s))
    ELSE IF Len(s) > 0 /\ s[Len(s)] = " " THEN strip(SubSeq(s, 1, Len(s) - 1))
    ELSE s

\* a reading that keeps the periods of the entry
cleaned_input_keep_periods(user_input) == replace(strip(user_input), ",", <<".">>)

\* user_input.replace('.', '').replace(',', '.') of _check_answer
cleaned_input(user_input) == replace(replace(strip(user_input), ".", <<>>), ",", <<".">>)

\* float(s) does not raise ValueError: a sign, then digits with at most one
\* '.' among them (the texts of the model hold no exponent, inf, nan or '_')
float_ok(s) ==
    LET body == IF Len(s) > 0 /\ s[1] \in {"-", "+"} THEN Tail(s) ELSE s
        dots == {i \in 1..Len(body) : body[i] = "."}
    IN  /\ \A i \in 1..Len(body) : IsDigit(body[i]) \/ body[i] = "."
        /\ Cardinality(dots) <= 1
        /\ Len(body) > Cardinality(dots)

\* float(s) for a text float_ok accepts
float_value(s) ==
    LET negative == s[1] = "-"
        body == IF s[1] \in {"-", "+"} THEN Tail(s) ELSE s
        parts == SplitOn(body, ".")
        frac == IF Len(parts) > 1 THEN parts[2] ELSE <<>>
        mag == DigitsVal(parts[1] \o frac)
    IN  float_number(IF negative THEN 0 - mag ELSE mag, Len(frac))

\* a reading that stores None for every text float() rejects
parse_answer_none(user_input) ==
    IF float_ok(cleaned_input(user_input)) THEN float_value(cleaned_input(user_input))
    ELSE NoAnswer

\* the value _check_answer stores in q_data['user_answer'] for the entry text
parse_answer(user_input) ==
    LET cleaned == cleaned_input(user_input)
    IN  IF float_ok(cleaned) THEN float_value(cleaned)
        ELSE IF cleaned = <<>> THEN NoAnswer
        ELSE InvalidAnswer

(***************************************************************************)
(* State.                                                                  *)
(***************************************************************************)
VARIABLES
    selected_schuljahr, \* MatheGenieApp.selected_schuljahr: the class label chosen in the menu
    current_frame,      \* MatheGenieApp.current_frame: the screen shown in the root window
    session,            \* the open session window (AufgabenSession / HalbjahrestestSession)
    toasts,             \* number of notices shown by _show_toast_message
    class_name,         \* AufgabenGenerator.class_name
    topic,              \* AufgabenGenerator.topic
    difficulty,         \* AufgabenGenerator.difficulty
    num_questions,      \* AufgabenGenerator.num_questions
    pc,                 \* which call has returned
    level,              \* value returned by _parse_class / _parse_selected_class
    available,          \* outcome of the availability gate
    params,             \* value returned by _get_params
    questions,          \* AufgabenGenerator.questions
    generated,          \* HalbjahrestestSession.all_questions before random.shuffle
    all_questions,      \* HalbjahrestestSession.all_questions
    rng,                \* the random source: its seed and the number of values drawn
    current_question_index, \* AufgabenSession.current_question_index
    time_left,          \* AufgabenSession.time_left
    timer_id,           \* AufgabenSession.timer_id: the pending after() callback, or None
    dialog,             \* the modal dialog that is open in the session window, or None
    feedbacks,          \* the FeedbackDialogs opened so far: question id, entry text, is_correct
    results,            \* the rows db.save_result has written
    number,             \* the argument of format_german
    rendered,           \* the text format_german returned
    parsed,             \* the value float() returned for the cleaned text
    heap,               \* the list objects created so far, by their contents
    a1, b1, a2, b2,     \* the quantities of _gen_text_linear_eq
    x_price, y_price    \* the prices of _gen_text_linear_eq

vars == <<selected_schuljahr, current_frame, session, toasts, class_name, topic, difficulty,
          num_questions, pc, level, available, params, questions, generated, all_questions, rng,
          current_question_index, time_left, timer_id, dialog, feedbacks, results,
          number, rendered, parsed, heap, a1, b1, a2, b2, x_price, y_price>>

appVars == <<selected_schuljahr, current_frame, session, toasts>>
genVars == <<class_name, topic, difficulty, num_questions>>
testVars == <<generated, all_questions, rng>>
sessVars == <<current_question_index, time_left, timer_id, dialog, feedbacks, results>>
fmtVars == <<number, rendered, parsed>>
heapVars == <<heap>>
eqVars == <<a1, b1, a2, b2, x_price, y_price>>

\* no session window has been created
NoSessionWindow ==
    /\ current_question_index = 0 /\ time_left = 0 /\ timer_id = None
    /\ dialog = NoDialog /\ feedbacks = <<>> /\ results = <<>>

\* format_german has not been called
NoNumber == number = None /\ rendered = <<>> /\ parsed = None

\* no list object has been created
NoHeap == heap = <<>>

\* _gen_text_linear_eq has not been entered
NoEquations ==
    /\ a1 = 0 /\ b1 = 0 /\ a2 = 0 /\ b2 = 0
    /\ x_price = None /\ y_price = None


(***************************************************************************)
(* The level resolver and the availability gate, called on any label.      *)
(***************************************************************************)
InitLevel ==
    /\ NoSessionWindow /\ NoNumber /\ NoHeap /\ NoEquations
    /\ class_name \in Labels
    /\ topic \in Topics
    /\ difficulty = "Leicht"
    /\ selected_schuljahr = class_name
    /\ current_frame = None /\ session = NoSession /\ toasts = 0
    /\ num_questions = 0
    /\ pc = "start"
    /\ level = None /\ available = None /\ params = None
    /\ questions = <<>> /\ generated = <<>> /\ all_questions = <<>>
    /\ rng = None

\* a call of AufgabenGenerator._parse_class
ParseClass ==
    /\ pc = "start"
    /\ level' = parse_class(class_name)
    /\ pc' = "parse_class"
    /\ UNCHANGED <<sessVars, fmtVars, heapVars, eqVars, appVars, genVars, testVars, available, params, questions>>

\* a call of MatheGenieApp._parse_selected_class
ParseSelectedClass ==
    /\ pc = "start"
    /\ level' = parse_selected_class(selected_schuljahr)
    /\ pc' = "parse_selected_class"
    /\ UNCHANGED <<sessVars, fmtVars, heapVars, eqVars, appVars, genVars, testVars, available, params, questions>>

\* the gate: current_total_semester >= _get_min_class(topic)
CheckAvailable ==
    /\ pc = "start"
    /\ available' = topic_available(topic, selected_schuljahr)
    /\ pc' = "gate"
    /\ UNCHANGED <<sessVars, fmtVars, heapVars, eqVars, appVars, genVars, testVars, level, params, questions>>

NextLevel == ParseClass \/ ParseSelectedClass \/ CheckAvailable

SpecLevel == InitLevel /\ [][NextLevel]_vars

(***************************************************************************)
(* The parameter resolver, called for any label, topic and difficulty.     *)
(***************************************************************************)
InitParams ==
    /\ NoSessionWindow /\ NoNumber /\ NoHeap /\ NoEquations
    /\ class_name \in Labels
    /\ topic \in Topics
    /\ difficulty \in Difficulties
    /\ selected_schuljahr = class_name
    /\ current_frame = None /\ session = NoSession /\ toasts = 0
    /\ num_questions = 0
    /\ pc = "start"
    /\ level = None /\ available = None /\ params = None
    /\ questions = <<>> /\ generated = <<>> /\ all_questions = <<>>
    /\ rng = None

\* a call of AufgabenGenerator._get_params
GetParams ==
    /\ pc = "start"
    /\ params' = get_params(class_name, topic, difficulty)
    /\ pc' = "get_params"
    /\ UNCHANGED <<sessVars, fmtVars, heapVars, eqVars, appVars, genVars, testVars, level, available, questions>>

NextParams == GetParams

SpecParams == InitParams /\ [][NextParams]_vars

(***************************************************************************)
(* One AufgabenGenerator for Zahlenraum-Training, constructed as the test  *)
(* composer constructs it (num_questions = 1), for any draws.              *)
(***************************************************************************)
\* labels a session is started with: the offered ones and three that are not
SessionLabels == schuljahr_options \cup {Klasse, KlasseLabel(0, MaxSemester), KlasseLabel(MaxYear, 1)}

\* the draws one call of _generate_zahlenraum consumes
ZahlenraumDraws(p) ==
    LET n == p.max_terms
    IN  IF n > 2
        THEN [nums : [1..n -> RandDraws], ops : [1..(n - 1) -> 0..1]]
        ELSE [nums : [1..2 -> RandDraws], ops : [1..1 -> 0..3]]

InitZahlenraum ==
    /\ NoSessionWindow /\ NoNumber /\ NoHeap /\ NoEquations
    /\ class_name \in SessionLabels
    /\ topic = "Zahlenraum-Training"
    /\ difficulty \in Difficulties
    /\ num_questions = 1
    /\ selected_schuljahr = class_name
    /\ current_frame = None /\ session = NoSession /\ toasts = 0
    /\ pc = "start"
    /\ level = None /\ available = None /\ params = None
    /\ questions = <<>> /\ generated = <<>> /\ all_questions = <<>>
    /\ rng = None

\* one pass of the loop of _generate_questions with topic Zahlenraum-Training;
\* round(answer, decimals) leaves the integer answer as it is
GenerateZahlenraum ==
    /\ pc = "start"
    /\ topic = "Zahlenraum-Training"
    /\ Len(questions) < num_questions
    /\ \E p \in {get_params(class_name, topic, difficulty)} :
       \E r \in ZahlenraumDraws(p) :
           LET q == generate_zahlenraum(p, r)
           IN  questions' = Append(questions,
                   [id |-> Len(questions) + 1, topic |-> topic, difficulty |-> difficulty,
                    kind |-> q.kind, nums |-> q.nums, ops |-> q.ops, vals |-> q.vals,
                    correct_answer |-> q.answer, user_answer |-> NoAnswer,
                    steps_result |-> q.answer, drawing_info |-> q.drawing_info])
    /\ pc' = IF Len(questions) + 1 = num_questions THEN "generated" ELSE pc
    /\ UNCHANGED <<sessVars, fmtVars, heapVars, eqVars, appVars, genVars, testVars, level, available, params>>

NextZahlenraum == GenerateZahlenraum

SpecZahlenraum == InitZahlenraum /\ [][NextZahlenraum]_vars

(***************************************************************************)
(* The semester test: HalbjahrestestSession is constructed for the label   *)
(* selected in the menu.                                                   *)
(***************************************************************************)
\* labels the test is composed for: the offered ones and malformed ones
TestLabels == SessionLabels \cup {KlasseLabel(0, 1), KlasseLabel(0, 0), KlasseLabel(1, MaxSemester),
                                  Klasse \o <<" ", "x", ".", "1">>, Klasse \o <<" ", "5", ",", "2">>}

\* largest seed of the random source
MaxSeed == 5

\* the test is composed while the random source has handed out fewer values
MaxDrawn == 250

InitTest ==
    /\ NoSessionWindow /\ NoNumber /\ NoHeap /\ NoEquations
    /\ selected_schuljahr \in TestLabels
    /\ class_name = None
    /\ topic = None /\ difficulty = None /\ num_questions = 0
    /\ current_frame = "main_menu" /\ session = NoSession /\ toasts = 0
    /\ pc = "start"
    /\ level = None /\ available = None /\ params = None
    /\ questions = <<>> /\ generated = <<>> /\ all_questions = <<>>
    /\ rng \in [seed : 0..MaxSeed, drawn : {0}]

\* handle_semester_test -> HalbjahrestestSession.__init__ ->
\* _generate_test_questions -> _create_session_window.  A generator that
\* raises ends the handler after clear_screen: no window is created.
ComposeTest ==
    /\ current_frame = "main_menu"
    /\ session = NoSession
    /\ rng.drawn < MaxDrawn
    /\ current_frame' = None
    /\ class_name' = selected_schuljahr
    /\ \E made \in {generate_test_list(selected_schuljahr, selected_schuljahr,
                                       rng.seed, rng.drawn)} :
       LET n == Len(made.list)
           u == random_draws(rng.seed, rng.drawn + 13 * n, n)
       IN  IF made.raised
           THEN /\ generated' = made.list
                /\ all_questions' = made.list
                /\ num_questions' = num_questions
                /\ rng' = [rng EXCEPT !.drawn = @ + 13 * (n + 1)]
                /\ session' = NoSession
                /\ pc' = "raised"
           ELSE /\ generated' = made.list
                /\ all_questions' = renumber(shuffle(made.list, n, u))
                /\ num_questions' = n
                /\ rng' = [rng EXCEPT !.drawn = @ + 14 * n]
                /\ session' = [kind |-> "test", class_name |-> selected_schuljahr]
                /\ pc' = "composed"
    /\ UNCHANGED <<sessVars, fmtVars, heapVars, eqVars, selected_schuljahr, toasts, topic, difficulty, level,
                   available, params, questions>>

\* HalbjahrestestSession._cancel_session / _finish_session: the window is
\* destroyed, the session object is dropped and show_main_menu is called
CloseTest ==
    /\ session.kind = "test"
    /\ session' = NoSession
    /\ current_frame' = "main_menu"
    /\ class_name' = None
    /\ num_questions' = 0
    /\ generated' = <<>>
    /\ all_questions' = <<>>
    /\ pc' = "closed"
    /\ UNCHANGED <<sessVars, fmtVars, heapVars, eqVars, selected_schuljahr, toasts, topic, difficulty, rng, level, available,
                   params, questions>>

NextTest == ComposeTest \/ CloseTest

SpecTest == InitTest /\ [][NextTest]_vars

(***************************************************************************)
(* The application: MatheGenieApp and the windows it opens.  The frame     *)
(* shown in the root window is named "splash", "main_menu", "progress",    *)
(* "formula", or, for the submenu of a topic, by the topic; it is None      *)
(* while the root window is cleared.                                       *)
(***************************************************************************)
\* largest number of notices on the screen at once
MaxToasts == 2

\* the draws on which it depends whether the generator of a practice session
\* raises: the three choices that lead to the item of task 6
PracticeDraws == {[k \in 1..7 |-> IF k <= 3 THEN c[k] ELSE 0] : c \in [1..3 -> 0..2]}

\* MatheGenieApp.__init__: "Klasse 1.1" is selected and the splash screen shown
Init ==
    /\ NoSessionWindow /\ NoNumber /\ NoHeap /\ NoEquations
    /\ selected_schuljahr = KlasseLabel(1, 1)
    /\ current_frame = "splash" /\ session = NoSession /\ toasts = 0
    /\ class_name = None /\ topic = None /\ difficulty = None /\ num_questions = 0
    /\ pc = "start"
    /\ level = None /\ available = None /\ params = None
    /\ questions = <<>> /\ generated = <<>> /\ all_questions = <<>>
    /\ rng \in [seed : 0..MaxSeed, drawn : {0}]

\* show_main_menu, called by the timer of the splash screen and by the back
\* buttons of the submenu, the progress menu and the formula menu
ShowMainMenu ==
    /\ current_frame \in {"splash", "progress", "formula"} \cup KnownTopics
    /\ current_frame' = "main_menu"
    /\ UNCHANGED <<sessVars, fmtVars, heapVars, eqVars, selected_schuljahr, session, toasts, genVars, testVars, pc, level,
                   available, params, questions>>

\* the readonly Combobox of the main menu sets selected_schuljahr to one of
\* schuljahr_options
SelectSchuljahr ==
    /\ current_frame = "main_menu"
    /\ \E name \in schuljahr_options : selected_schuljahr' = name
    /\ UNCHANGED <<sessVars, fmtVars, heapVars, eqVars, current_frame, session, toasts, genVars, testVars, pc, level,
                   available, params, questions>>

\* show_topic_submenu without the return that follows the notice
ShowTopicSubmenu_no_return(t) ==
    /\ current_frame = "main_menu"
    /\ toasts < MaxToasts
    /\ toasts' = IF parse_selected_class(selected_schuljahr)[3] < get_min_class(t)
                 THEN toasts + 1 ELSE toasts
    /\ current_frame' = t
    /\ UNCHANGED <<sessVars, fmtVars, heapVars, eqVars, selected_schuljahr, session, genVars, testVars, pc, level,
                   available, params, questions>>

\* show_topic_submenu(topic), the command of the topic buttons of the main menu
ShowTopicSubmenu(t) ==
    /\ current_frame = "main_menu"
    /\ IF parse_selected_class(selected_schuljahr)[3] < get_min_class(t)
       THEN /\ toasts < MaxToasts
            /\ toasts' = toasts + 1
            /\ current_frame' = current_frame
       ELSE /\ toasts' = toasts
            /\ current_frame' = t
    /\ UNCHANGED <<sessVars, fmtVars, heapVars, eqVars, selected_schuljahr, session, genVars, testVars, pc, level,
                   available, params, questions>>

\* root.after(3000, toast.destroy): a notice leaves the screen
ToastExpire ==
    /\ toasts > 0
    /\ toasts' = toasts - 1
    /\ UNCHANGED <<sessVars, fmtVars, heapVars, eqVars, selected_schuljahr, current_frame, session, genVars, testVars, pc,
                   level, available, params, questions>>

\* start_practice_session(topic, difficulty), the command of the difficulty
\* buttons of a submenu -> AufgabenSession.__init__.  A generator that raises
\* ends the handler after clear_screen: no window is created.  The questions
\* of the session are those of the generator's own specification, and the
\* countdown and the dialogs of the window those of the session's.
StartPracticeSession(d) ==
    /\ current_frame \in KnownTopics
    /\ current_frame' = None
    /\ \E u \in PracticeDraws :
           IF generator_raises(current_frame, d, selected_schuljahr, u)
           THEN /\ session' = NoSession
                /\ UNCHANGED genVars
                /\ pc' = "raised"
           ELSE /\ session' = [kind |-> "practice", topic |-> current_frame,
                               difficulty |-> d, class_name |-> selected_schuljahr]
                /\ class_name' = selected_schuljahr
                /\ topic' = current_frame
                /\ difficulty' = d
                /\ num_questions' = 10
                /\ pc' = "session"
    /\ UNCHANGED <<sessVars, fmtVars, heapVars, eqVars, selected_schuljahr, toasts, testVars, level, available, params,
                   questions>>

\* AufgabenSession._cancel_session / _finish_session: the window is destroyed,
\* the session object is dropped and show_main_menu is called
ClosePractice ==
    /\ session.kind = "practice"
    /\ session' = NoSession
    /\ current_frame' = "main_menu"
    /\ class_name' = None /\ topic' = None /\ difficulty' = None /\ num_questions' = 0
    /\ pc' = "closed"
    /\ UNCHANGED <<sessVars, fmtVars, heapVars, eqVars, selected_schuljahr, toasts, testVars, level, available, params,
                   questions>>

\* handle_progress_menu -> show_progress_menu
HandleProgressMenu ==
    /\ current_frame = "main_menu"
    /\ current_frame' = "progress"
    /\ UNCHANGED <<sessVars, fmtVars, heapVars, eqVars, selected_schuljahr, session, toasts, genVars, testVars, pc, level,
                   available, params, questions>>

\* handle_formula_menu -> show_formula_menu
HandleFormulaMenu ==
    /\ current_frame = "main_menu"
    /\ current_frame' = "formula"
    /\ UNCHANGED <<sessVars, fmtVars, heapVars, eqVars, selected_schuljahr, session, toasts, genVars, testVars, pc, level,
                   available, params, questions>>

Next ==
    \/ ShowMainMenu
    \/ SelectSchuljahr
    \/ \E t \in KnownTopics : ShowTopicSubmenu(t)
    \/ ToastExpire
    \/ \E d \in Difficulties : StartPracticeSession(d)
    \/ ClosePractice
    \/ HandleProgressMenu
    \/ HandleFormulaMenu
    \/ ComposeTest
    \/ CloseTest

Spec == Init /\ [][Next]_vars

(***************************************************************************)
(* One AufgabenGenerator for any topic: a known topic is constructed as    *)
(* the test composer constructs it (num_questions = 1), an unknown topic   *)
(* name with a batch of up to MaxBatch questions.                          *)
(***************************************************************************)
\* largest batch generated for an unknown topic name
MaxBatch == 3

\* the draws of one generator call: the first three are free, the later ones
\* follow the random stream they seed
GenDraws ==
    {[k \in 1..13 |-> IF k <= 3 THEN <<a, b, c>>[k] ELSE random_raw(a + 9 * b + 36 * c, k)] :
        a \in 0..8, b \in RandDraws, c \in RandDraws}

InitGenerate ==
    /\ NoSessionWindow /\ NoNumber /\ NoHeap /\ NoEquations
    /\ class_name \in SessionLabels
    /\ topic \in Topics
    /\ difficulty \in Difficulties
    /\ num_questions \in IF topic \in KnownTopics THEN {1} ELSE 1..MaxBatch
    /\ selected_schuljahr = class_name
    /\ current_frame = None /\ session = NoSession /\ toasts = 0
    /\ pc = "start"
    /\ level = None /\ available = None /\ params = None
    /\ questions = <<>> /\ generated = <<>> /\ all_questions = <<>>
    /\ rng = None

\* one pass of the loop of AufgabenGenerator._generate_questions; a generator
\* that raises ends the construction
GenerateQuestion ==
    /\ pc = "start"
    /\ Len(questions) < num_questions
    /\ \E u \in GenDraws :
           IF generator_raises(topic, difficulty, class_name, u)
           THEN /\ questions' = questions
                /\ pc' = "raised"
           ELSE /\ questions' = Append(questions,
                       generate_question(Len(questions) + 1, topic, difficulty, class_name, u))
                /\ pc' = IF Len(questions) + 1 = num_questions THEN "generated" ELSE pc
    /\ UNCHANGED <<sessVars, fmtVars, heapVars, eqVars, appVars, genVars, testVars, level, available, params>>

NextGenerate == GenerateQuestion

SpecGenerate == InitGenerate /\ [][NextGenerate]_vars

(***************************************************************************)
(* format_german and the reading of an entry as functions: a number is     *)
(* rendered, and the text is read back as _check_answer reads the entry.   *)
(***************************************************************************)
\* magnitudes of the numbers rendered
FormatUnits == {0, 1, 5, 7, 50, 105, 1000, 1234, 12345, 100000, 999999, 1453557, 14535570}

\* ints, and floats of up to five fraction digits
FormatNumbers ==
    {int_number(s * n) : s \in {1, -1}, n \in FormatUnits}
        \cup {float_number(s * n, k) : s \in {1, -1}, n \in FormatUnits, k \in 0..5}

InitFormat ==
    /\ NoSessionWindow
    /\ selected_schuljahr = None /\ current_frame = None /\ session = NoSession /\ toasts = 0
    /\ class_name = None /\ topic = None /\ difficulty = None /\ num_questions = 0
    /\ pc = "start"
    /\ level = None /\ available = None /\ params = None
    /\ questions = <<>> /\ generated = <<>> /\ all_questions = <<>>
    /\ rng = [seed |-> 0, drawn |-> 0]
    /\ number \in FormatNumbers /\ rendered = <<>> /\ parsed = None
    /\ NoHeap /\ NoEquations

\* format_german(number)
FormatGerman ==
    /\ pc = "start"
    /\ rendered' = format_german(number)
    /\ pc' = "rendered"
    /\ UNCHANGED <<sessVars, heapVars, eqVars, appVars, genVars, testVars, level, available, params, questions,
                   number, parsed>>

\* _check_answer, the reading of the entry: strip, replace, float
ParseEntry ==
    /\ pc = "rendered"
    /\ parsed' = parse_answer(rendered)
    /\ pc' = "parsed"
    /\ UNCHANGED <<sessVars, heapVars, eqVars, appVars, genVars, testVars, level, available, params, questions,
                   number, rendered>>

NextFormat == FormatGerman \/ ParseEntry

SpecFormat == InitFormat /\ [][NextFormat]_vars

(***************************************************************************)
(* Claims about the level resolver, the gate and the parameter resolver.   *)
(***************************************************************************)
\* the level <<j, h>> of an offered label, read off the label's construction
OfferedLevels == {<<j, h>> : j \in 1..13, h \in 1..2}

\* the minimum totalSemesterIndex of each topic as the specification lists it
StatedMinimumIndex(t) ==
    CASE t \in {"Zahlenraum-Training", "Textaufgaben"} -> 1
      [] t \in {"Terme & Gleichungen", "Geometrie"} -> 9
      [] t = "Statistik" -> 13
      [] t = "Stochastik" -> 15
      [] t \in {"Polynomdivision", "Vektor-Berechnung"} -> 19

\* C4: at every offered level (year, semester) a known topic passes the gate
\* exactly when (year-1)*2+semester >= the topic's stated minimum index
\* (1, 1, 9, 9, 13, 15, 19, 19); so Textaufgaben passes at every level,
\* Vektor-Berechnung does not pass at 5.1, and a topic that passes at one
\* level passes at every later level.
C4_GateMatchesTable ==
    (pc = "gate" /\ topic \in KnownTopics) =>
        \A l \in OfferedLevels :
            class_name = KlasseLabel(l[1], l[2]) =>
                /\ available = ((l[1] - 1) * 2 + l[2] >= StatedMinimumIndex(topic))
                /\ (topic = "Textaufgaben" => available)
                /\ (topic = "Vektor-Berechnung" /\ l = <<5, 1>> => ~available)
                /\ \A m \in OfferedLevels :
                       (available /\ (m[1] > l[1] \/ (m[1] = l[1] /\ m[2] >= l[2])))
                           => topic_available(topic, KlasseLabel(m[1], m[2]))

\* C4 witness: the gate has refused Vektor-Berechnung at level 5.1
C4_Witness ==
    /\ pc = "gate" /\ topic = "Vektor-Berechnung"
    /\ class_name = KlasseLabel(5, 1) /\ available = FALSE

\* numerals int() accepts, with their values
YearNumerals == {<<IntStr(j), j>> : j \in 0..MaxYear} \cup {<<(<<"-", "1">>), -1>>, <<(<<"+", "7">>), 7>>}
SemesterNumerals == {<<IntStr(h), h>> : h \in 0..MaxSemester}
BlankPrefixes == {q \in LabelPrefixes : \E i \in 1..Len(q) : q[i] = " "}

\* labels of two words whose second word is <integer>.<integer>
NumericLabel(name) ==
    \E q \in BlankPrefixes, y \in YearNumerals, h \in SemesterNumerals :
        name = q \o y[1] \o <<".">> \o h[1]

\* the level a resolver returned, as <<year, semester, totalSemesterIndex>>
ReturnedLevel == IF pc = "parse_class"
                 THEN <<level[1], level[2], (level[1] - 1) * 2 + level[2]>>
                 ELSE level

\* C6 as stated: every label that is not an offered label 1.1..13.2 (bad
\* separator, non-numeric part, year outside 1..13, semester outside 1..2)
\* resolves to the default level (1, 1, 1), and an offered label resolves to
\* (year, semester, (year-1)*2+semester).
C6_OutOfRangeGivesDefault ==
    (pc \in {"parse_class", "parse_selected_class"}) =>
        /\ \A l \in OfferedLevels :
               class_name = KlasseLabel(l[1], l[2]) =>
                   ReturnedLevel = <<l[1], l[2], (l[1] - 1) * 2 + l[2]>>
        /\ \A j \in 0..MaxYear, h \in 0..MaxSemester :
               (class_name = KlasseLabel(j, h) /\ <<j, h>> \notin OfferedLevels)
                   => ReturnedLevel = <<1, 1, 1>>
        /\ (~NumericLabel(class_name) => ReturnedLevel = <<1, 1, 1>>)

\* C6 amended: parsing never fails; a label of two words whose second word is
\* <integer>.<integer> resolves to (year, semester, (year-1)*2+semester) for
\* those integers whatever their range, and every other label resolves to the
\* default level (1, 1, 1).
C6_ParseTotal ==
    (pc \in {"parse_class", "parse_selected_class"}) =>
        /\ \A q \in BlankPrefixes, y \in YearNumerals, h \in SemesterNumerals :
               class_name = q \o y[1] \o <<".">> \o h[1] =>
                   ReturnedLevel = <<y[2], h[2], (y[2] - 1) * 2 + h[2]>>
        /\ (~NumericLabel(class_name) => ReturnedLevel = <<1, 1, 1>>)

\* C6 witness: the label "Klasse 14.3" has been resolved to year 14, semester 3
C6_Witness ==
    /\ pc = "parse_selected_class"
    /\ class_name = KlasseLabel(14, 3)
    /\ level = <<14, 3, 29>>

\* C7: at every offered level, for every topic and difficulty, the resolved
\* range has 1 <= lower <= upper, and the upper bound does not decrease from
\* Leicht to Mittel to Schwer.
C7_RangeOrdered ==
    (pc = "get_params" /\ class_name \in schuljahr_options) =>
        /\ 1 <= params.range[1]
        /\ params.range[1] <= params.range[2]
        /\ (difficulty = "Leicht" =>
               params.range[2] <= get_params(class_name, topic, "Mittel").range[2])
        /\ (difficulty = "Mittel" =>
               params.range[2] <= get_params(class_name, topic, "Schwer").range[2])

\* C7 witness: Geometrie, Schwer at level 1.1, where lower = upper = 100
C7_Witness ==
    /\ pc = "get_params" /\ class_name = KlasseLabel(1, 1)
    /\ topic = "Geometrie" /\ difficulty = "Schwer"
    /\ params.range = <<100, 100>>

StatedMaxTerms(d) == CASE d = "Leicht" -> 2 [] d = "Mittel" -> 3 [] d = "Schwer" -> 4

\* C9 as stated: for every topic, maxTermCount is 2/3/4 and decimalPrecision
\* is 0 below year 5, and from year 5 on 0 for Leicht, 1 for Mittel, 2 for Schwer.
C9_DecimalsByDifficulty ==
    (pc = "get_params") =>
        \A l \in OfferedLevels :
            class_name = KlasseLabel(l[1], l[2]) =>
                /\ params.max_terms = StatedMaxTerms(difficulty)
                /\ params.decimals =
                       (IF l[1] < 5 \/ difficulty = "Leicht" THEN 0
                        ELSE IF difficulty = "Mittel" THEN 1 ELSE 2)

\* C9 amended: maxTermCount is 2/3/4 for Leicht/Mittel/Schwer; decimalPrecision
\* is 0 below year 5; from year 5 on it is 1 for every difficulty of every
\* topic other than Zahlenraum-Training, and for Zahlenraum-Training it is 0
\* for Leicht and Mittel and 2 for Schwer.
C9_DecimalsByTopic ==
    (pc = "get_params") =>
        \A l \in OfferedLevels :
            class_name = KlasseLabel(l[1], l[2]) =>
                /\ params.max_terms = StatedMaxTerms(difficulty)
                /\ params.decimals =
                       (IF l[1] < 5 THEN 0
                        ELSE IF topic # "Zahlenraum-Training" THEN 1
                        ELSE IF difficulty = "Schwer" THEN 2 ELSE 0)

\* C9 witness: Geometrie, Leicht at level 5.1 resolves to one decimal
C9_Witness ==
    /\ pc = "get_params" /\ class_name = KlasseLabel(5, 1)
    /\ topic = "Geometrie" /\ difficulty = "Leicht"
    /\ params.decimals = 1 /\ params.max_terms = 2

\* C10 as stated: for every topic, allowNegatives is false below year 7,
\* false for Leicht at every level, and true for Mittel and Schwer from year 7.
C10_NegativesByDifficulty ==
    (pc = "get_params") =>
        \A l \in OfferedLevels :
            class_name = KlasseLabel(l[1], l[2]) =>
                params.allow_negatives = (l[1] >= 7 /\ difficulty # "Leicht")

\* C10 amended: allowNegatives is false at every level below year 7; from
\* year 7 on it is true for every difficulty of every topic other than
\* Zahlenraum-Training, and for Zahlenraum-Training it is true for Schwer only.
C10_NegativesByTopic ==
    (pc = "get_params") =>
        \A l \in OfferedLevels :
            class_name = KlasseLabel(l[1], l[2]) =>
                params.allow_negatives =
                    (l[1] >= 7 /\ (topic # "Zahlenraum-Training" \/ difficulty = "Schwer"))

\* C10 witness: Zahlenraum-Training, Mittel at level 7.1 resolves to no negatives
C10_Witness ==
    /\ pc = "get_params" /\ class_name = KlasseLabel(7, 1)
    /\ topic = "Zahlenraum-Training" /\ difficulty = "Mittel"
    /\ params.allow_negatives = FALSE

(***************************************************************************)
(* Claims about the Zahlenraum-Training generator.                         *)
(***************************************************************************)
\* the ceiling of the number range as the specification lists it
StatedCeiling(year) ==
    IF year <= 2 THEN 100 ELSE IF year <= 4 THEN 1000
    ELSE IF year <= 7 THEN 10000 ELSE 100000

OperandsWithin(q, lo, hi) == \A i \in 1..Len(q.nums) : lo <= q.nums[i] /\ q.nums[i] <= hi

DifficultyCount(x, d) == Cardinality({k \in 1..Len(x) : x[k].difficulty = d})

\* C1: once the semester test has been requested, for every label, the
\* composer has returned and the exam holds exactly 23 problems, 15 generated
\* at Leicht, 5 at Mittel and 3 at Schwer.
C1_AlwaysTwentyThree ==
    pc \in {"composed", "raised"} =>
        /\ pc # "raised"
        /\ Len(all_questions) = 23
        /\ DifficultyCount(all_questions, "Leicht") = 15
        /\ DifficultyCount(all_questions, "Mittel") = 5
        /\ DifficultyCount(all_questions, "Schwer") = 3

\* the composer was called for the offered label Klasse 3.1 and the generator
\* of a Textaufgaben question raised before 23 questions were made
C1_Raised ==
    /\ pc = "raised"
    /\ selected_schuljahr = KlasseLabel(3, 1)
    /\ session = NoSession
    /\ current_frame = None
    /\ Len(generated) < 23

\* two questions agree on topic, difficulty and correct answer
SameTag(a, b) ==
    /\ a.topic = b.topic
    /\ a.difficulty = b.difficulty
    /\ a.correct_answer = b.correct_answer

\* the number of questions of the list x with the tag of question q
TagCount(x, q) == Cardinality({k \in 1..Len(x) : SameTag(x[k], q)})

\* C2: in a composed exam the shuffled list holds every (topic, difficulty,
\* correct answer) exactly as often as the generated list does, and the
\* question at position i carries the id i, the ids being 1..23.
C2_ShuffleIsPermutation ==
    pc = "composed" =>
        /\ Len(all_questions) = 23
        /\ Len(generated) = 23
        /\ \A k \in 1..23 :
               TagCount(all_questions, generated[k]) = TagCount(generated, generated[k])
        /\ \A i \in 1..23 : all_questions[i].id = i

\* a composed exam whose shuffle moved questions and whose questions all left
\* their generator with the id 1
C2_Witness ==
    /\ pc = "composed"
    /\ \E k \in 1..23 : ~SameTag(all_questions[k], generated[k])
    /\ \A k \in 1..23 : generated[k].id = 1
    /\ all_questions[23].id = 23

\* the total semester index of the level the selected label stands for: the
\* label Klasse j.h stands for (j - 1) * 2 + h, any other label for Klasse 1.1
StatedTotalIndex ==
    LET levels == {jh \in (0..MaxYear) \X (0..MaxSemester) :
                       selected_schuljahr = KlasseLabel(jh[1], jh[2])}
    IN  IF levels = {} THEN 1
        ELSE LET jh == CHOOSE v \in levels : TRUE IN (jh[1] - 1) * 2 + jh[2]

\* the topics whose minimum index is reached at the selected level
StatedAvailable == {t \in KnownTopics : StatedMinimumIndex(t) <= StatedTotalIndex}

\* C3: when the composer has run, every question it made comes from a topic
\* available at the selected level; when no topic is available the exam is
\* composed of 23 questions of Zahlenraum-Training.
C3_TopicsAvailable ==
    pc \in {"composed", "raised"} =>
        /\ StatedAvailable # {} =>
               \A k \in 1..Len(all_questions) : all_questions[k].topic \in StatedAvailable
        /\ StatedAvailable = {} =>
               /\ pc = "composed"
               /\ Len(all_questions) = 23
               /\ \A k \in 1..23 : all_questions[k].topic = "Zahlenraum-Training"

\* an exam composed for Klasse 0.1, a level below every topic's minimum: the
\* fallback supplied all 23 questions
C3_Witness ==
    /\ pc = "composed"
    /\ selected_schuljahr = KlasseLabel(0, 1)
    /\ StatedAvailable = {}
    /\ \A k \in 1..23 : all_questions[k].topic = "Zahlenraum-Training"

(***************************************************************************)
(* Claims about the application.                                           *)
(***************************************************************************)
\* C5: over any sequence of user operations, a practice session is open only
\* for a topic whose minimum index is reached at the selected level; a step
\* from the main menu into a submenu goes to an available topic only; and a
\* step that shows a notice leaves the screen, the session and the selected
\* class as they are.
C5_GateHolds ==
    /\ [](session.kind = "practice" =>
              StatedMinimumIndex(session.topic) <= StatedTotalIndex)
    /\ [][current_frame = "main_menu" /\ current_frame' \in KnownTopics =>
              StatedMinimumIndex(current_frame') <= StatedTotalIndex]_vars
    /\ [][toasts' > toasts =>
              /\ current_frame' = current_frame
              /\ session' = session
              /\ selected_schuljahr' = selected_schuljahr]_vars

\* a practice session for Statistik is open at Klasse 7.1, the first level
\* that admits it, while the notice of a refused selection is still shown
C5_Witness ==
    /\ session.kind = "practice"
    /\ session.topic = "Statistik"
    /\ selected_schuljahr = KlasseLabel(7, 1)
    /\ current_frame = None
    /\ toasts > 0

(***************************************************************************)
(* Claims about the topic adjustment of the range.                         *)
(***************************************************************************)
\* the topics whose range _get_params cuts down to 9 and 25
SmallRangeTopics == {"Stochastik", "Vektor-Berechnung", "Polynomdivision"}

\* C11: for every label, for every topic other than Zahlenraum-Training the
\* resolved upper bound is at most 50 for Leicht and Mittel and at most 150
\* for Schwer; for Stochastik, Vektor-Berechnung and Polynomdivision it is at
\* most 9 for Leicht and at most 25 for Mittel and Schwer.
C11_UpperBoundCapped ==
    (pc = "get_params" /\ topic # "Zahlenraum-Training") =>
        /\ difficulty \in {"Leicht", "Mittel"} => params.range[2] <= 50
        /\ difficulty = "Schwer" => params.range[2] <= 150
        /\ topic \in SmallRangeTopics =>
               /\ difficulty = "Leicht" => params.range[2] <= 9
               /\ difficulty \in {"Mittel", "Schwer"} => params.range[2] <= 25

\* Geometrie, Schwer at Klasse 8.1: the upper bound 100000 of the difficulty
\* step is cut down to 150
C11_Witness ==
    /\ pc = "get_params" /\ class_name = KlasseLabel(8, 1)
    /\ topic = "Geometrie" /\ difficulty = "Schwer"
    /\ difficulty_params(8, "Schwer").range[2] = 100000
    /\ params.range[2] = 150

(***************************************************************************)
(* Claims about the Zahlenraum-Training generator.                         *)
(***************************************************************************)
\* the operators the level allows: + and - at years 1 and 2, all four above
StatedOperators(year) == IF year <= 2 THEN {"+", "-"} ELSE {"+", "-", "*", "/"}

\* the operators that some draws put into a two-term problem for the
\* parameters p
TwoTermOperators(p) ==
    {generate_zahlenraum(p, r).ops[1] : r \in ZahlenraumDraws(p)}

\* C13: a two-term problem uses one operator of the level's set, only + and -
\* at years 1 and 2; at years 3 and above each of +, -, *, / is the operator
\* of some generated two-term problem; a problem of more than two terms uses
\* only + and -.
C13_EveryAllowedOperatorAppears ==
    pc = "generated" =>
        \A l \in OfferedLevels :
            class_name = KlasseLabel(l[1], l[2]) =>
                LET q == questions[1]
                IN  IF Len(q.nums) = 2
                    THEN /\ Len(q.ops) = 1
                         /\ q.ops[1] \in StatedOperators(l[1])
                         /\ l[1] >= 3 =>
                                TwoTermOperators(get_params(class_name, topic, difficulty))
                                    = StatedOperators(l[1])
                    ELSE \A i \in 1..Len(q.ops) : q.ops[i] \in {"+", "-"}

\* a two-term problem generated at Klasse 5.1, where / is among the level's
\* operators and is taken out before the operator is chosen
C13_DivisionRemoved ==
    /\ pc = "generated" /\ class_name = KlasseLabel(5, 1) /\ difficulty = "Leicht"
    /\ Len(questions[1].nums) = 2
    /\ questions[1].ops = <<"*">>
    /\ "/" \notin TwoTermOperators(get_params(class_name, topic, difficulty))
    /\ \A i \in 1..Len(base_ops(5)) : base_ops(5)[i] \in StatedOperators(5)

\* C14: when the resolved allow_negatives is false, no operand, no running
\* value and no answer of a Zahlenraum-Training problem is negative; a
\* two-term subtraction shows the larger operand first, and in a chain every
\* subtraction shown in the question has a running value that is not smaller
\* than the operand taken from it, each step being computed with the operator
\* the question shows.
C14_NothingNegative ==
    (pc = "generated" /\ ~get_params(class_name, topic, difficulty).allow_negatives) =>
        LET q == questions[1]
        IN  /\ \A i \in 1..Len(q.nums) : q.nums[i] >= 0
            /\ \A i \in 1..Len(q.vals) : q.vals[i] >= 0
            /\ q.correct_answer >= 0
            /\ IF Len(q.nums) = 2
               THEN /\ q.ops[1] = "-" => q.nums[1] >= q.nums[2]
                    /\ q.correct_answer = apply_op(q.ops[1], q.nums[1], q.nums[2])
               ELSE /\ \A i \in 1..Len(q.ops) :
                           /\ q.ops[i] = "-" => q.vals[i] >= q.nums[i + 1]
                           /\ q.vals[i + 1] = apply_op(q.ops[i], q.vals[i], q.nums[i + 1])
                    /\ q.correct_answer = q.vals[Len(q.vals)]

\* a chain at Klasse 3.1, Mittel, whose first drawn operator was - with a
\* first operand smaller than the second: the question shows +
C14_Witness ==
    /\ pc = "generated" /\ class_name = KlasseLabel(3, 1) /\ difficulty = "Mittel"
    /\ questions[1].ops[1] = "+"
    /\ questions[1].nums[1] < questions[1].nums[2]
    /\ \E r \in ZahlenraumDraws(get_params(class_name, topic, difficulty)) :
           /\ choice(<<"+", "-">>, r.ops[1]) = "-"
           /\ generate_zahlenraum(get_params(class_name, topic, difficulty), r).nums
                  = questions[1].nums
           /\ generate_zahlenraum(get_params(class_name, topic, difficulty), r).ops
                  = questions[1].ops

(***************************************************************************)
(* Claims about the values the generators display and return.              *)
(***************************************************************************)
\* every number of the sequence s is at least 0
NonNegative(s) == \A i \in 1..Len(s) : s[i] >= 0

\* the generated question carries no negative operand, intermediate value or
\* answer (the answer of a shape measured with pi_val has no sign to read)
NoNegativeValue(q) ==
    /\ NonNegative(q.nums)
    /\ NonNegative(q.vals)
    /\ IF q.topic \in {"Geometrie", "Statistik", "Vektor-Berechnung"}
       THEN "units" \in DOMAIN q.correct_answer => q.correct_answer.units >= 0
       ELSE q.correct_answer >= 0

\* topics whose generator computes every displayed value from integers
SignedTopics == {"Zahlenraum-Training", "Terme & Gleichungen", "Polynomdivision",
                 "Vektor-Berechnung", "Geometrie", "Statistik"}

RECURSIVE frac_digits(_)
frac_digits(x) ==
    IF x.places = 0 \/ x.units % 10 # 0 THEN x.places
    ELSE frac_digits(dec(x.units \div 10, x.places - 1))

\* the generator of the question returns an integer
HasIntegerAnswer(q) ==
    \/ q.topic \in {"Zahlenraum-Training", "Terme & Gleichungen", "Polynomdivision"}
    \/ q.topic = "Textaufgaben" /\ q.kind \in {"divide", "multiply", "multi-step-money"}

\* the generator of the question returns a decimal, or a value measured with
\* pi_val and rounded
HasDecimalAnswer(q) ==
    \/ q.topic \in {"Geometrie", "Statistik", "Vektor-Berechnung"}
    \/ q.topic = "Textaufgaben" /\ q.kind \in {"linear_eq", "bernoulli"}

\* the number of fractional digits of the stored answer (for a value measured
\* with pi_val, the number of places it was rounded to)
stored_digits(q) ==
    IF HasIntegerAnswer(q) THEN 0
    ELSE IF "rounded" \in DOMAIN q.correct_answer THEN q.correct_answer.rounded
    ELSE frac_digits(q.correct_answer)

dec_eq(a, b) == a.units * Pow(10, b.places) = b.units * Pow(10, a.places)

\* the final result the solution steps state is the stored answer
TraceMatchesAnswer(q) ==
    IF HasIntegerAnswer(q) \/ "rounded" \in DOMAIN q.correct_answer
    THEN q.steps_result = q.correct_answer
    ELSE dec_eq(q.steps_result, q.correct_answer)

\* C17 as stated: the final result stated in the solution steps of a generated
\* question equals the stored correct answer, at every level and difficulty
\* (the areas of triangles and trapezoids, which come in halves, included).
C17_TraceMatchesAnswer ==
    (pc = "generated" /\ (HasIntegerAnswer(questions[1]) \/ HasDecimalAnswer(questions[1])))
        => TraceMatchesAnswer(questions[1])

\* the parts of C17 that hold: the trace of every question but a Geometrie
\* one states the stored answer, and so does the trace of a Geometrie question
\* when the resolver returns decimals >= 1 or the area is a whole number
C17_TraceMatchesFromYearFive ==
    (pc = "generated" /\ (HasIntegerAnswer(questions[1]) \/ HasDecimalAnswer(questions[1])))
        => \/ TraceMatchesAnswer(questions[1])
           \/ /\ topic = "Geometrie"
              /\ questions[1].kind \in {"Dreieck", "Trapez"}
              /\ get_params(class_name, topic, difficulty).decimals = 0
              /\ questions[1].steps_result.units % 10 = 5

\* a triangle of Klasse 4.2 whose trace ends with an area of so many and a half
\* while the stored answer is the even whole number next to it
C17_HalfRoundedAway ==
    /\ pc = "generated"
    /\ class_name = KlasseLabel(4, 2)
    /\ topic = "Geometrie"
    /\ questions[1].kind = "Dreieck"
    /\ questions[1].steps_result.places = 1
    /\ questions[1].steps_result.units % 10 = 5
    /\ questions[1].correct_answer.places = 0
    /\ questions[1].correct_answer.units % 2 = 0
    /\ 10 * questions[1].correct_answer.units \in
           {questions[1].steps_result.units - 5, questions[1].steps_result.units + 5}

(***************************************************************************)
(* Claims about a batch for an unknown topic name.                         *)
(***************************************************************************)
\* C18: generating a batch of N questions for a topic name that is not one of
\* the eight known topics never raises; the batch holds exactly N questions
\* numbered 1..N, each with correct answer 0, the error text as its question
\* and no visualization.
C18_UnknownTopicSentinel ==
    topic \notin KnownTopics =>
        /\ pc # "raised"
        /\ Len(questions) <= num_questions
        /\ pc = "generated" <=> (Len(questions) = num_questions)
        /\ \A i \in 1..Len(questions) :
               /\ questions[i].id = i
               /\ questions[i].correct_answer = 0
               /\ questions[i].kind = "Fehler: Unbekanntes Thema."
               /\ questions[i].drawing_info = NoDrawing
               /\ questions[i].user_answer = NoAnswer

\* a batch of MaxBatch questions has been generated for the unknown topic
C18_Witness ==
    /\ topic \notin KnownTopics
    /\ num_questions = MaxBatch
    /\ pc = "generated"
    /\ Len(questions) = MaxBatch
    /\ questions[MaxBatch].id = MaxBatch

(***************************************************************************)
(* A practice session: AufgabenSession with its countdown and its modal    *)
(* dialogs.  _check_answer waits in FeedbackDialog (wait_window) and       *)
(* _cancel_session in askyesno; while they wait the event loop runs and    *)
(* the countdown fires.  pc is "session" while no handler waits,           *)
(* "feedback" and "confirm" while one does, "closed" when the window is    *)
(* gone and every handler has returned, "TclError" when a handler has      *)
(* raised.  timer_id is None, or the state of the callback it names:       *)
(* "pending", "fired" or "cancelled".                                      *)
(***************************************************************************)
\* number of questions of a session (10 in AufgabenSession.__init__)
SessionLength == 3

\* number of consecutive countdown callbacks taken as one step
TickBatch == 300

\* seeds of the random source at the construction of the generator
SessionSeeds == 0..1

\* the sessions followed: topic, difficulty and class of start_practice_session
SessionSetups ==
    {<<"Zahlenraum-Training", "Leicht", KlasseLabel(1, 1)>>,
     <<"Statistik", "Mittel", KlasseLabel(7, 1)>>,
     <<"Terme & Gleichungen", "Schwer", KlasseLabel(9, 2)>>}

\* AufgabenSession._get_time_limit
get_time_limit(d) ==
    IF d = "Leicht" THEN 600 ELSE IF d = "Mittel" THEN 900 ELSE 1200

\* q_data['correct_answer'] as a Python number
answer_number(q) ==
    IF HasIntegerAnswer(q) THEN int_number(q.correct_answer)
    ELSE float_number(q.correct_answer.units, q.correct_answer.places)

\* abs(a - b) < 0.1 for two numbers
abs_below_tenth(a, b) ==
    LET diff == a.units * Pow(10, b.places) - b.units * Pow(10, a.places)
        mag == IF diff < 0 THEN 0 - diff ELSE diff
    IN  10 * mag < Pow(10, a.places + b.places)

\* every answer that is a number counts
is_correct_any_number(user_answer, correct_answer) == user_answer.type = "float"

\* _check_answer: isinstance(user_answer, (int, float)) and
\* abs(user_answer - correct_answer) < 0.1
is_correct(user_answer, correct_answer) ==
    user_answer.type = "float" /\ abs_below_tenth(user_answer, correct_answer)

\* _finish_session: the loop that counts the correct answers
correct_count(qs) ==
    Cardinality({i \in 1..Len(qs) :
        /\ qs[i].user_answer.type = "float"
        /\ abs_below_tenth(qs[i].user_answer, answer_number(qs[i]))})

\* the number x + h / 100
plus_hundredths(x, h) ==
    LET k == Max(x.places, 2)
    IN  float_number(x.units * Pow(10, k - x.places) + h * Pow(10, k - 2), k)

\* what the user types into the entry for question q: nothing, letters, the
\* answer as format_german shows it with blanks around it, numbers 0.05 and
\* 0.2 away from it, and one typed with a decimal point.  The distance 0.1
\* itself is not typed: float() returns the double next to the decimal
\* typed, and at that distance the double decides the comparison.
AnswerTexts(q) ==
    {<<>>, <<"a", "b", "c">>,
     <<" ">> \o format_german(answer_number(q)) \o <<" ">>,
     format_german(plus_hundredths(answer_number(q), 5)),
     format_german(plus_hundredths(answer_number(q), 0 - 5)),
     format_german(plus_hundredths(answer_number(q), 20)),
     replace(format_german(plus_hundredths(answer_number(q), 5)), ",", <<".">>)}

\* the questions AufgabenGenerator makes from the random stream of a seed
session_questions(t, d, name, seed) ==
    [i \in 1..SessionLength |->
        generate_question(i, t, d, name, random_draws(seed, 13 * (i - 1), 13))]

\* AufgabenSession.__init__ -> _create_session_window -> _update_question,
\* _start_timer: the first call of _countdown has taken one second and
\* scheduled the next
InitSession ==
    /\ NoNumber /\ NoHeap /\ NoEquations
    /\ \E setup \in SessionSetups, seed \in SessionSeeds :
           /\ \A i \in 1..SessionLength :
                  ~generator_raises(setup[1], setup[2], setup[3],
                                    random_draws(seed, 13 * (i - 1), 13))
           /\ topic = setup[1] /\ difficulty = setup[2] /\ class_name = setup[3]
           /\ questions = session_questions(setup[1], setup[2], setup[3], seed)
           /\ rng = [seed |-> seed, drawn |-> 13 * SessionLength]
    /\ num_questions = SessionLength
    /\ selected_schuljahr = class_name
    /\ current_frame = None /\ toasts = 0
    /\ session = [kind |-> "practice", topic |-> topic, difficulty |-> difficulty,
                  class_name |-> class_name]
    /\ current_question_index = 0
    /\ time_left = get_time_limit(difficulty) - 1
    /\ timer_id = "pending"
    /\ dialog = NoDialog /\ feedbacks = <<>> /\ results = <<>>
    /\ pc = "session"
    /\ level = None /\ available = None /\ params = None
    /\ generated = <<>> /\ all_questions = <<>>

\* the questions of a semester test of SessionLength questions for which
\* random.choice picked Zahlenraum-Training every time: one Leicht, one
\* Mittel, the others Schwer, numbered in this order
test_session_questions(name, seed) ==
    [i \in 1..SessionLength |->
        generate_question(i, "Zahlenraum-Training",
                          IF i = 1 THEN "Leicht" ELSE IF i = 2 THEN "Mittel" ELSE "Schwer",
                          name, random_draws(seed, 13 * (i - 1), 13))]

\* HalbjahrestestSession.__init__ -> _generate_test_questions,
\* _create_session_window, which (version 4.2) calls neither
\* _update_question nor _start_timer: no callback is scheduled
InitTestSession ==
    /\ NoNumber /\ NoHeap /\ NoEquations
    /\ selected_schuljahr = KlasseLabel(1, 1)
    /\ class_name = selected_schuljahr
    /\ topic = None /\ difficulty = None
    /\ \E seed \in SessionSeeds :
           /\ all_questions = test_session_questions(class_name, seed)
           /\ rng = [seed |-> seed, drawn |-> 14 * SessionLength]
    /\ generated = all_questions
    /\ questions = <<>>
    /\ num_questions = Len(all_questions)
    /\ current_frame = None /\ toasts = 0
    /\ session = [kind |-> "test", class_name |-> class_name]
    /\ current_question_index = 0
    /\ time_left = 1800
    /\ timer_id = None
    /\ dialog = NoDialog /\ feedbacks = <<>> /\ results = <<>>
    /\ pc = "session"
    /\ level = None /\ available = None /\ params = None

\* the session object is a HalbjahrestestSession: its questions are
\* all_questions, those of an AufgabenSession are generator.questions
is_test_session == Len(all_questions) > 0
asked == IF is_test_session THEN all_questions ELSE questions

\* self.time_limit
time_limit == IF is_test_session THEN 1800 ELSE get_time_limit(difficulty)

\* the row db.save_result inserts for _finish_session(timeout)
result_row(timeout) ==
    [topic |-> IF is_test_session THEN <<"Halbjahrestest">> ELSE <<topic, difficulty>>,
     class |-> class_name,
     correct_count |-> correct_count(asked), total_count |-> num_questions,
     duration |-> dec(IF timeout THEN time_limit ELSE time_limit - time_left, 0)]

\* _finish_session(timeout): after_cancel, save_result, showinfo (and the
\* certificate of a test passed), window.destroy, show_main_menu.  While
\* showinfo is open no callback is pending and the message box holds the
\* input, so the handler is one step.
FinishSession(timeout) ==
    /\ timer_id' = IF timeout THEN "fired"
                   ELSE IF timer_id = "pending" THEN "cancelled" ELSE timer_id
    /\ results' = Append(results, result_row(timeout))
    /\ session' = NoSession
    /\ current_frame' = "main_menu"

\* _check_answer up to FeedbackDialog: the entry is read, the answer stored
\* and scored, and the dialog opened
SubmitAnswer ==
    /\ pc = "session" /\ session # NoSession
    /\ IF current_question_index >= num_questions
       THEN /\ FinishSession(FALSE)
            /\ pc' = "closed"
            /\ UNCHANGED <<questions, all_questions, dialog, feedbacks>>
       ELSE \E entry \in AnswerTexts(asked[current_question_index + 1]) :
                LET q_data == asked[current_question_index + 1]
                    user_input == strip(entry)
                    user_answer == parse_answer(entry)
                    correct == is_correct(user_answer, answer_number(q_data))
                    stored == [asked EXCEPT
                                  ![current_question_index + 1].user_answer = user_answer]
                IN  /\ IF is_test_session
                       THEN all_questions' = stored /\ UNCHANGED questions
                       ELSE questions' = stored /\ UNCHANGED all_questions
                    /\ dialog' = [kind |-> "FeedbackDialog", is_correct |-> correct]
                    /\ feedbacks' = Append(feedbacks,
                           [id |-> q_data.id, user_input |-> user_input,
                            is_correct |-> correct])
                    /\ pc' = "feedback"
                    /\ UNCHANGED <<timer_id, results, session, current_frame>>
    /\ UNCHANGED <<selected_schuljahr, toasts, genVars, generated, rng, level, available,
                   params, current_question_index, time_left, fmtVars, heapVars, eqVars>>

\* _check_answer after FeedbackDialog, which OK has closed or which went
\* with the session window: the index advances; after the last question
\* _finish_session, else _update_question, which raises TclError when the
\* window is gone
CloseFeedback ==
    /\ pc = "feedback"
    /\ dialog' = NoDialog
    /\ current_question_index' = current_question_index + 1
    /\ IF current_question_index + 1 = num_questions
       THEN /\ FinishSession(FALSE)
            /\ pc' = "closed"
       ELSE /\ pc' = IF session # NoSession THEN "session" ELSE "TclError"
            /\ UNCHANGED <<timer_id, results, session, current_frame>>
    /\ UNCHANGED <<selected_schuljahr, toasts, genVars, testVars, level, available, params,
                   questions, time_left, feedbacks, fmtVars, heapVars, eqVars>>

\* _countdown, the after() callback: TickBatch callbacks in a row (or those
\* left until time_left is 0) take a second each and schedule the next; the
\* callback that finds time_left = 0 finishes the session.  The dialog that
\* is open goes with the window, and the handler that waits in it goes on.
Countdown ==
    /\ timer_id = "pending"
    /\ IF time_left > 0
       THEN /\ time_left' = time_left - Min(TickBatch, time_left)
            /\ UNCHANGED <<timer_id, results, session, current_frame, dialog, pc>>
       ELSE /\ FinishSession(TRUE)
            /\ dialog' = NoDialog
            /\ pc' = IF pc = "session" THEN "closed" ELSE pc
            /\ UNCHANGED time_left
    /\ UNCHANGED <<selected_schuljahr, toasts, genVars, testVars, level, available, params,
                   questions, current_question_index, feedbacks, fmtVars, heapVars, eqVars>>

\* _cancel_session up to askyesno
CancelSession ==
    /\ pc = "session" /\ session # NoSession
    /\ dialog' = [kind |-> "askyesno"]
    /\ pc' = "confirm"
    /\ UNCHANGED <<appVars, genVars, testVars, level, available, params, questions,
                   current_question_index, time_left, timer_id, feedbacks, results, fmtVars, heapVars, eqVars>>

\* _cancel_session after askyesno has returned yes or no
AnswerCancel(yes) ==
    /\ pc = "confirm"
    /\ dialog' = NoDialog
    /\ IF yes
       THEN /\ timer_id' = IF timer_id = "pending" THEN "cancelled" ELSE timer_id
            /\ session' = NoSession
            /\ current_frame' = "main_menu"
            /\ pc' = "closed"
       ELSE /\ pc' = IF session # NoSession THEN "session" ELSE "closed"
            /\ UNCHANGED <<timer_id, session, current_frame>>
    /\ UNCHANGED <<selected_schuljahr, toasts, genVars, testVars, level, available, params,
                   questions, current_question_index, time_left, feedbacks, results, fmtVars, heapVars, eqVars>>

NextSession ==
    \/ SubmitAnswer
    \/ CloseFeedback
    \/ Countdown
    \/ CancelSession
    \/ \E yes \in BOOLEAN : AnswerCancel(yes)

SpecSession == InitSession /\ [][NextSession]_vars

\* practice sessions and semester tests
InitSessions == InitSession \/ InitTestSession

SpecSessions == InitSessions /\ [][NextSession]_vars

(***************************************************************************)
(* Claims about scoring and about the number formatter.                    *)
(***************************************************************************)
\* a number with the trailing zeros of its fraction removed
RECURSIVE normal(_)
normal(x) ==
    IF x.places > 0 /\ x.units % 10 = 0
    THEN normal([units |-> x.units \div 10, places |-> x.places - 1])
    ELSE [units |-> x.units, places |-> x.places]

\* two numbers have the same numeric value
same_value(a, b) == normal(a) = normal(b)

\* the stored answer of q is a number less than 0.1 away from its correct answer
WithinTolerance(q) ==
    /\ q.user_answer.type = "float"
    /\ LET c == answer_number(q)
           k == Max(q.user_answer.places, c.places)
           a10 == 10 * q.user_answer.units * Pow(10, k - q.user_answer.places)
           c10 == 10 * c.units * Pow(10, k - c.places)
       IN  a10 - c10 < Pow(10, k) /\ c10 - a10 < Pow(10, k)

\* the stored answer of q is the number h hundredths above its correct answer
AnsweredAbove(q, h) ==
    /\ q.user_answer.type = "float"
    /\ same_value(q.user_answer, plus_hundredths(answer_number(q), h))

\* the number of FeedbackDialogs opened with is_correct = True
PositiveFeedbacks == Cardinality({n \in 1..Len(feedbacks) : feedbacks[n].is_correct})

\* C19: an answer is scored correct exactly when it was read as a number
\* and that number is less than 0.1 away from the correct answer: no answer
\* and an invalid text are scored incorrect and the dialog opens all the
\* same, an answer 0.05 above is correct and one 0.2 above incorrect; the
\* count _finish_session saves is the number of positive feedbacks.
C19_ScoredByTolerance ==
    /\ \A n \in 1..Len(feedbacks) :
           LET q == questions[feedbacks[n].id]
           IN  /\ feedbacks[n].is_correct <=> WithinTolerance(q)
               /\ q.user_answer.type \in {"NoneType", "str"} => ~feedbacks[n].is_correct
               /\ AnsweredAbove(q, 5) => feedbacks[n].is_correct
               /\ AnsweredAbove(q, 20) => ~feedbacks[n].is_correct
    /\ pc = "feedback" /\ session.kind = "practice" =>
           dialog = [kind |-> "FeedbackDialog",
                     is_correct |-> feedbacks[Len(feedbacks)].is_correct]
    /\ \A r \in 1..Len(results) : results[r].correct_count = PositiveFeedbacks

\* a session finished by its last answer: 7,05 was typed for 7 and scored
\* correct, another answer was 0.2 too large, another invalid, and the row
\* saved counts one correct answer
C19_Witness ==
    /\ pc = "closed" /\ Len(results) = 1 /\ Len(feedbacks) = num_questions
    /\ results[1].correct_count = 1
    /\ \E n \in 1..Len(feedbacks) :
           /\ answer_number(questions[n]) = int_number(7)
           /\ questions[n].user_answer = float_number(705, 2)
           /\ feedbacks[n].is_correct
    /\ \E n \in 1..Len(feedbacks) :
           AnsweredAbove(questions[n], 20) /\ ~feedbacks[n].is_correct
    /\ \E n \in 1..Len(feedbacks) :
           questions[n].user_answer = InvalidAnswer /\ ~feedbacks[n].is_correct

\* C20: for every int and every float of at most five fraction digits,
\* positive, negative or zero, the text format_german renders is read back
\* (periods removed, the comma replaced by a period, float) as a number of
\* the same numeric value.
C20_RoundTrip ==
    pc = "parsed" => parsed.type = "float" /\ same_value(parsed, number)

\* 1453557.0 is rendered "1.453.557,0" and read back as 1453557.0
C20_Witness ==
    /\ pc = "parsed"
    /\ number = float_number(14535570, 1)
    /\ rendered = <<"1", ".", "4", "5", "3", ".", "5", "5", "7", ",", "0">>
    /\ parsed = float_number(14535570, 1)

(***************************************************************************)
(* Claims about the text format_german renders.                            *)
(***************************************************************************)
\* the text without its sign
Unsigned(s) == IF Len(s) > 0 /\ s[1] = "-" THEN Tail(s) ELSE s

\* the text before the ',' and the text after it
IntegerText(s) == SplitOn(Unsigned(s), ",")[1]
FractionText(s) == IF Len(SplitOn(Unsigned(s), ",")) > 1 THEN SplitOn(Unsigned(s), ",")[2] ELSE <<>>

\* digits in groups of three counted from the right, a '.' between the groups,
\* no zero in front of a number of several digits
GroupedByThree(s) ==
    /\ Len(s) > 0 /\ s[1] # "."
    /\ \A i \in 1..Len(s) :
           IF (Len(s) - i) % 4 = 3 THEN s[i] = "." ELSE IsDigit(s[i])
    /\ Len(s) > 1 => s[1] # "0"

\* the magnitude, the whole part and the fraction of a number
Magnitude(x) == IF x.units < 0 THEN 0 - x.units ELSE x.units
WholePart(x) == Magnitude(x) \div Pow(10, x.places)
FractionPart(x) == Magnitude(x) % Pow(10, x.places)

\* C21: format_german renders the integer part in groups of three digits
\* separated by '.', puts ',' before the fraction, drops the trailing zeros
\* of the fraction, keeps the one fraction digit '0' for a whole float and no
\* fraction for an int, and puts the sign before the grouped digits;
\* 5.0 gives "5,0", 5 gives "5", 1453557.0 "1.453.557,0", -12.34 "-12,34".
C21_GermanRendering ==
    pc \in {"rendered", "parsed"} =>
        /\ (rendered[1] = "-") <=> number.units < 0
        /\ Len(SplitOn(Unsigned(rendered), ",")) <= 2
        /\ GroupedByThree(IntegerText(rendered))
        /\ DigitsVal(SelectSeq(IntegerText(rendered), IsDigit)) = WholePart(number)
        /\ number.type = "int" => \A i \in 1..Len(rendered) : rendered[i] # ","
        /\ number.type = "float" /\ FractionPart(number) = 0 =>
               FractionText(rendered) = <<"0">>
        /\ number.type = "float" /\ FractionPart(number) # 0 =>
               /\ AllDigits(FractionText(rendered))
               /\ FractionText(rendered)[Len(FractionText(rendered))] # "0"
               /\ Len(FractionText(rendered)) <= number.places
               /\ DigitsVal(FractionText(rendered))
                      * Pow(10, number.places - Len(FractionText(rendered)))
                      = FractionPart(number)
        /\ number = float_number(50, 1) => rendered = <<"5", ",", "0">>
        /\ number = int_number(5) => rendered = <<"5">>
        /\ number = float_number(14535570, 1) =>
               rendered = <<"1", ".", "4", "5", "3", ".", "5", "5", "7", ",", "0">>
        /\ number = float_number(-1234, 2) => rendered = <<"-", "1", "2", ",", "3", "4">>

\* -14535.570 is rendered "-14.535,57"
C21_Witness ==
    /\ pc = "rendered"
    /\ number = float_number(-14535570, 3)
    /\ rendered = <<"-", "1", "4", ".", "5", "3", "5", ",", "5", "7">>

(***************************************************************************)
(* Claims about the sessions.                                              *)
(***************************************************************************)
\* what is true of every FeedbackDialog opened for an empty or unreadable entry
EmptyAndInvalidRecorded ==
    /\ NoAnswer # InvalidAnswer
    /\ \A n \in 1..Len(feedbacks) :
           LET q == asked[feedbacks[n].id]
           IN  /\ feedbacks[n].user_input = <<>> =>
                      q.user_answer = NoAnswer /\ ~feedbacks[n].is_correct
               /\ feedbacks[n].user_input = <<"a", "b", "c">> =>
                      q.user_answer = InvalidAnswer /\ ~feedbacks[n].is_correct
    /\ pc = "feedback" /\ session # NoSession => dialog.kind = "FeedbackDialog"

\* the step that ends the wait in FeedbackDialog, whatever was entered
AdvancesByOne ==
    pc = "feedback" /\ pc' # "feedback" =>
        /\ current_question_index' = current_question_index + 1
        /\ IF current_question_index + 1 = num_questions
           THEN pc' = "closed" /\ Len(results') = Len(results) + 1
           ELSE session # NoSession =>
                    pc' = "session" /\ session' = session /\ results' = results

\* C22: in a practice session and in a semester test an empty entry is
\* stored as None and an entry float() rejects as the distinct value
\* 'Ungültige Eingabe'; both are scored incorrect, the feedback dialog opens,
\* and closing it advances the question index by exactly one as after any
\* answer, finishing the session after the last question.
C22_EmptyAndInvalidAnswers == [](EmptyAndInvalidRecorded) /\ [][AdvancesByOne]_vars

\* a semester test answered to the end: nothing entered for the first
\* question, letters for the last, one row saved without a correct answer
C22_Witness ==
    /\ is_test_session /\ pc = "closed"
    /\ Len(feedbacks) = num_questions /\ current_question_index = num_questions
    /\ feedbacks[1].user_input = <<>> /\ all_questions[1].user_answer = NoAnswer
    /\ feedbacks[num_questions].user_input = <<"a", "b", "c">>
    /\ all_questions[num_questions].user_answer = InvalidAnswer
    /\ Len(results) = 1 /\ results[1].correct_count = 0

(***************************************************************************)
(* Claims about the Statistik and Geometrie generators.                    *)
(***************************************************************************)
\* the value of rank k of the samples: fewer than k samples lie below it and
\* at least k are not above it
Ranked(data, k) ==
    CHOOSE v \in {data[i] : i \in 1..Len(data)} :
        /\ Cardinality({i \in 1..Len(data) : data[i] < v}) < k
        /\ Cardinality({i \in 1..Len(data) : data[i] <= v}) >= k

\* twice the median of the samples
TwiceMedian(data) ==
    IF Len(data) % 2 = 1 THEN 2 * Ranked(data, (Len(data) + 1) \div 2)
    ELSE Ranked(data, Len(data) \div 2) + Ranked(data, Len(data) \div 2 + 1)

RECURSIVE SumOf(_)
SumOf(data) == IF Len(data) = 0 THEN 0 ELSE data[1] + SumOf(Tail(data))

\* x is sum / count rounded to d places: it has d places and lies within
\* half a unit of the last place of the quotient
RoundedQuotient(x, sum, count, d) ==
    /\ x.places = d
    /\ 2 * (x.units * count - sum * Pow(10, d)) <= count
    /\ 2 * (sum * Pow(10, d) - x.units * count) <= count

\* C23: a Statistik question has 5 to 10 samples, each an integer >= 1; its
\* Median answer is the middle value of the sorted samples for an odd count
\* and the average of the two middle values for an even count (5 for 2, 5, 8
\* and 4.5 for 1, 3, 6, 8), and its Mittelwert answer is sum / count rounded
\* to the decimals of the resolver.
C23_StatistikAnswers ==
    /\ statistik_median(<<2, 5, 8>>) = dec(5, 0)
    /\ statistik_median(<<1, 3, 6, 8>>) = dec(45, 1)
    /\ \A n \in 1..Len(questions) :
           LET q == questions[n]
           IN  q.topic = "Statistik" =>
                   /\ Len(q.nums) \in 5..10
                   /\ \A i \in 1..Len(q.nums) : q.nums[i] \in Nat /\ q.nums[i] >= 1
                   /\ q.kind \in {"Mittelwert", "Median"}
                   /\ q.kind = "Median" =>
                          q.correct_answer.units * 2
                              = TwiceMedian(q.nums) * Pow(10, q.correct_answer.places)
                   /\ q.kind = "Mittelwert" =>
                          RoundedQuotient(q.correct_answer, SumOf(q.nums), Len(q.nums),
                              get_params(class_name, topic, difficulty).decimals)

\* a Median question with six samples whose two middle values differ by an
\* odd number, so that the answer ends in .5
C23_Witness ==
    /\ Len(questions) = 1 /\ questions[1].topic = "Statistik"
    /\ questions[1].kind = "Median" /\ Len(questions[1].nums) = 6
    /\ questions[1].correct_answer.places = 1
    /\ questions[1].correct_answer.units % 10 = 5

(***************************************************************************)
(* Claims about the sketches of the questions.                             *)
(***************************************************************************)

\* the ten shape tags of Geometrie and Statistik
ListedShapes ==
    {"Rechteck", "Kreis", "Dreieck", "Trapez", "Würfel", "Kugel", "Quader",
     "Zylinder", "Kegel", "BarChart"}

\* the sketch of a Geometrie or Statistik question carries the dimensions or
\* the samples the question states
SketchOfQuestion(q) ==
    CASE q.topic = "Geometrie" ->
             /\ q.drawing_info.shape \in ListedShapes \ {"BarChart"}
             /\ q.drawing_info.shape = q.kind
             /\ q.drawing_info.dims = q.nums
      [] q.topic = "Statistik" ->
             /\ q.drawing_info.shape = "BarChart"
             /\ q.drawing_info.data = q.nums
      [] OTHER -> q.drawing_info = NoDrawing

\* the sketch of the ladder: the side the question asks for is '?', the two
\* other sides are those the question states
LadderSketch(q) ==
    /\ q.drawing_info.shape = "DreieckRecht"
    /\ Cardinality({s \in {"a", "b", "c"} : q.drawing_info[s] = Sought}) = 1
    /\ q.drawing_info.a \in {Sought, q.nums[1]}
    /\ q.drawing_info.b \in {Sought, q.nums[2]}
    /\ q.drawing_info.c \in {Sought, q.nums[3]}

\* C24 as stated: every question has no sketch or one of the ten listed
\* shapes with the dimensions or values of the question; the questions of
\* Geometrie and Statistik always have one, those of every other topic none.
C24_TenShapesOnly ==
    \A i \in 1..Len(questions) : SketchOfQuestion(questions[i])

\* C24 amended: there is an eleventh shape, DreieckRecht, which the ladder
\* question (pythagoras) of Textaufgaben carries, with '?' for the side asked
\* for; every other question is as stated: Geometrie and Statistik always
\* have one of the ten listed shapes with the dimensions or samples of the
\* question, all other questions have no sketch.
C24_SketchesOfQuestions ==
    \A i \in 1..Len(questions) :
        LET q == questions[i]
        IN  IF q.topic = "Textaufgaben" /\ q.kind = "pythagoras"
            THEN /\ LadderSketch(q)
                 /\ parse_class(class_name)[1] \in {7, 8}
            ELSE SketchOfQuestion(q)

\* a ladder question that asks for the hypotenuse has been generated
C24_Witness ==
    /\ pc = "generated"
    /\ topic = "Textaufgaben"
    /\ questions[1].kind = "pythagoras"
    /\ questions[1].drawing_info.shape = "DreieckRecht"
    /\ questions[1].drawing_info.c = Sought
    /\ questions[1].drawing_info.a = questions[1].nums[1]

\* the solids of _generate_geometrie
Solids == {"Würfel", "Kugel", "Quader", "Zylinder", "Kegel"}

\* what C25 states of a Geometrie question apart from the triangle: every
\* dimension is an integer >= 1, width <= length, c <= a, Trapez from year 6
\* and the solids from year 7
WellFormedShape(q, year) ==
    /\ \A k \in 1..Len(q.nums) : q.nums[k] \in Nat /\ q.nums[k] >= 1
    /\ q.kind = "Rechteck" => q.nums[2] <= q.nums[1]
    /\ q.kind = "Trapez" => q.nums[2] <= q.nums[1] /\ year >= 6
    /\ q.kind \in Solids => year >= 7

\* C25 as stated: every dimension of a Geometrie question is an integer >= 1,
\* a rectangle has width <= length, a triangle height <= base, a trapezoid
\* c <= a; trapezoids appear from year 6 and solids from year 7 only.
C25_WellFormedGeometry ==
    \A i \in 1..Len(questions) :
        questions[i].topic = "Geometrie" =>
            /\ WellFormedShape(questions[i], parse_class(class_name)[1])
            /\ questions[i].kind = "Dreieck" => questions[i].nums[2] <= questions[i].nums[1]

\* C25 amended: as stated, but the height of a triangle is at most
\* max(2, base): it is at most the base, except that a triangle of base 1 can
\* have the height 2.
C25_TriangleHeightUpToTwo ==
    \A i \in 1..Len(questions) :
        questions[i].topic = "Geometrie" =>
            /\ WellFormedShape(questions[i], parse_class(class_name)[1])
            /\ questions[i].kind = "Dreieck" =>
                   questions[i].nums[2] <= Max(2, questions[i].nums[1])

\* a triangle of base 1 and height 2 has been generated
C25_Witness ==
    /\ pc = "generated"
    /\ topic = "Geometrie"
    /\ questions[1].kind = "Dreieck"
    /\ questions[1].nums = <<1, 2>>

(***************************************************************************)
(* The resolver and the list objects.  _get_params builds its dict and the *)
(* list base_ops anew at every call; the range is a tuple.  A generator    *)
(* holds the returned dict in a local variable and changes the list it     *)
(* refers to (params['operators'].remove('/')).  The heap keeps the list   *)
(* objects by their contents, params.operators is a reference into it.     *)
(* Every call of a generator is that of a new AufgabenGenerator(topic,     *)
(* difficulty, class_name, 1), as the test composer constructs them.       *)
(***************************************************************************)

\* the number of list objects after which no generator is constructed
MaxObjects == 2

\* the topics whose generator calls _get_params
ResolvingTopics == KnownTopics \ {"Textaufgaben"}

\* the draws of a generator call
ResolveDraws == {u \in GenDraws : u[1] \in {0, 4} /\ u[2] = 0 /\ u[3] = RandRes - 1}

\* base_ops as one list that every call of _get_params returns
base_ops_object_shared(objects) == 1

\* the list object a display ['+', '-', ...] of _get_params evaluates to: a
\* new object at every evaluation
base_ops_object(objects) == Len(objects) + 1

\* the dict params with the contents of the list it refers to
params_value == [params EXCEPT !.operators = heap[params.operators]]

InitResolve ==
    /\ NoSessionWindow /\ NoNumber /\ NoEquations
    /\ heap = <<>>
    /\ class_name \in SessionLabels
    /\ topic = None /\ difficulty = None /\ num_questions = 0
    /\ selected_schuljahr = class_name
    /\ current_frame = None /\ session = NoSession /\ toasts = 0
    /\ pc = "start"
    /\ level = None /\ available = None /\ params = None
    /\ questions = <<>> /\ generated = <<>> /\ all_questions = <<>>
    /\ rng = None

\* AufgabenGenerator(t, d, class_name, 1) up to the return of the
\* _get_params call its generator starts with
CallGetParams(t, d) ==
    /\ pc = "start"
    /\ t \in ResolvingTopics
    /\ Len(heap) < MaxObjects
    /\ topic' = t /\ difficulty' = d /\ num_questions' = 1
    /\ questions' = <<>>
    /\ LET ref == base_ops_object(heap)
       IN  /\ heap' = IF ref > Len(heap)
                      THEN Append(heap, base_ops(parse_class(class_name)[1]))
                      ELSE heap
           /\ params' = [get_params(class_name, t, d) EXCEPT !.operators = ref]
    /\ pc' = "get_params"
    /\ UNCHANGED <<sessVars, fmtVars, eqVars, appVars, class_name, testVars, level, available>>

\* the rest of the generator and of the pass of _generate_questions.  The
\* two-term branch of _generate_zahlenraum removes '/' from the list
\* params['operators'] refers to when decimals is 0, and refers to a new list
\* ['+', '-'] when the list is empty then.
GenerateFromParams ==
    /\ pc = "get_params"
    /\ LET p == params_value
           two_terms == topic = "Zahlenraum-Training" /\ p.max_terms <= 2
           ops1 == IF two_terms /\ p.decimals = 0
                   THEN RemoveFirst(p.operators, "/") ELSE p.operators
           heap1 == [heap EXCEPT ![params.operators] = ops1]
       IN  /\ heap' = IF two_terms /\ Len(ops1) = 0
                      THEN Append(heap1, <<"+", "-">>) ELSE heap1
           /\ params' = IF two_terms /\ Len(ops1) = 0
                        THEN [params EXCEPT !.operators = Len(heap1) + 1] ELSE params
           /\ \E u \in ResolveDraws :
                  IF randint_raises(topic, p)
                  THEN /\ questions' = questions
                       /\ pc' = "raised"
                  ELSE /\ questions' =
                              IF topic = "Zahlenraum-Training"
                              THEN LET q == generate_zahlenraum(p,
                                                [nums |-> [k \in 1..4 |-> u[k] % RandRes],
                                                 ops |-> [k \in 1..3 |-> u[4 + k]]])
                                   IN  <<[generate_question(1, topic, difficulty, class_name, u)
                                            EXCEPT !.kind = q.kind, !.nums = q.nums,
                                                   !.ops = q.ops, !.vals = q.vals,
                                                   !.correct_answer = q.answer,
                                                   !.steps_result = q.answer]>>
                              ELSE <<generate_question(1, topic, difficulty, class_name, u)>>
                       /\ pc' = "generated"
    /\ UNCHANGED <<sessVars, fmtVars, eqVars, appVars, genVars, testVars, level, available>>

\* AufgabenGenerator(t, d, class_name, 1) for Textaufgaben or a topic the
\* dispatch does not know: _get_params is not called
GenerateWithoutParams(t, d) ==
    /\ pc = "start"
    /\ t \in Topics \ ResolvingTopics
    /\ topic' = t /\ difficulty' = d /\ num_questions' = 1
    /\ \E u \in ResolveDraws :
           IF generator_raises(t, d, class_name, u)
           THEN questions' = <<>> /\ pc' = "raised"
           ELSE /\ questions' = <<generate_question(1, t, d, class_name, u)>>
                /\ pc' = "generated"
    /\ UNCHANGED <<sessVars, fmtVars, heapVars, eqVars, appVars, class_name, testVars, level,
                   available, params>>

\* the generator object is dropped and the next one can be constructed
NextGenerator ==
    /\ pc \in {"generated", "raised"}
    /\ pc' = "start"
    /\ UNCHANGED <<sessVars, fmtVars, heapVars, eqVars, appVars, genVars, testVars, level,
                   available, params, questions>>

NextResolve ==
    \/ \E t \in Topics, d \in Difficulties : CallGetParams(t, d)
    \/ GenerateFromParams
    \/ \E t \in Topics, d \in Difficulties : GenerateWithoutParams(t, d)
    \/ NextGenerator

SpecResolve == InitResolve /\ [][NextResolve]_vars

(***************************************************************************)
(* Claims about the state of the resolver.                                 *)
(***************************************************************************)

\* what _get_params has returned is the value that belongs to the label,
\* the topic and the difficulty
ReturnsTheSame ==
    pc = "get_params" => params_value = get_params(class_name, topic, difficulty)

\* a step changes no list but the one the running generator got from its own
\* call of _get_params, and drops none
OwnListOnly ==
    /\ Len(heap') >= Len(heap)
    /\ \A k \in 1..Len(heap) :
           heap'[k] # heap[k] => pc = "get_params" /\ k = params.operators /\ k = Len(heap)

\* C26: _get_params keeps no state between calls: whatever was generated
\* before, a call returns the parameters that belong to (level, topic,
\* difficulty); the removal of '/' by a generator changes the list of its own
\* call only, never what a later call returns.
C26_ResolverStateless == [](ReturnsTheSame) /\ [][OwnListOnly]_vars

\* a second call at the same class has returned all four operators after a
\* generator has removed '/' from the list of the first call
C26_Witness ==
    /\ pc = "get_params"
    /\ Len(heap) = 2
    /\ heap[1] = <<"+", "-", "*">>
    /\ params.operators = 2
    /\ params_value.operators = <<"+", "-", "*", "/">>
    /\ topic = "Zahlenraum-Training" /\ difficulty = "Leicht"

(***************************************************************************)
(* The sessions under the event loop of Tk: a callback that root.after has *)
(* scheduled is run once its second has passed, also while a modal dialog  *)
(* is open.  What the user does (entering, closing a dialog, cancelling)   *)
(* is under no obligation.                                                 *)
(***************************************************************************)

\* practice sessions
SpecSessionFair == SpecSession /\ WF_vars(Countdown)

\* practice sessions and semester tests
SpecSessionsFair == SpecSessions /\ WF_vars(Countdown)

(***************************************************************************)
(* Claims about the end of a session.                                      *)
(***************************************************************************)

\* a step that closes the window saves a result, unless it is the yes to the
\* cancel confirmation
ClosesWithResult ==
    session # NoSession /\ session' = NoSession =>
        \/ Len(results') = Len(results) + 1
        \/ pc = "confirm" /\ pc' = "closed"

\* C27: every session that has been started and is not cancelled eventually
\* finishes: the countdown runs from the creation of the window, so that,
\* whatever the user does or omits, the time runs out and the session is
\* finished with its result saved.
C27_EventuallyFinished == <>(session = NoSession) /\ [][ClosesWithResult]_vars

\* the window of a semester test is open and no countdown has been scheduled
C27_TestWithoutCountdown ==
    /\ is_test_session
    /\ session # NoSession /\ pc = "session"
    /\ current_question_index = 1
    /\ timer_id = None
    /\ time_left = 1800

\* C28: under every interleaving of the countdown with the submissions and
\* the two modal dialogs a session writes at most one result row, and only
\* once it is over; after the session has finished no further question is
\* scored.
C28_AtMostOneRow ==
    /\ Len(results) <= 1
    /\ Len(results) = 1 => session = NoSession
    /\ session = NoSession => Len(feedbacks) <= num_questions

\* the time has run out while the feedback on the last answer was open, and
\* closing the dialog has finished the session a second time: two rows
C28_TwoRows ==
    /\ Len(results) = 2
    /\ timer_id = "fired"
    /\ results[1].duration = dec(get_time_limit(difficulty), 0)
    /\ results[2].duration = dec(get_time_limit(difficulty), 0)
    /\ current_question_index = num_questions
    /\ pc = "closed"

(***************************************************************************)
(* The results table.  A session has been started from the main menu; once *)
(* it is over the progress menu shows the rows of the table, of which the  *)
(* selected one can be edited or deleted.  The row selected is named by    *)
(* its place in results.  The column duration is REAL: a decimal.          *)
(***************************************************************************)

\* new_correct of simulate_edit_result without the cap
new_correct_uncapped(old_correct, total) == old_correct + 1

\* new_correct of simulate_edit_result
new_correct(old_correct, total) ==
    IF old_correct + 1 > total THEN total ELSE old_correct + 1

\* new_duration of simulate_edit_result: float() of the duration as
\* load_results_to_tree displays it (one place), times 0.9
new_duration(old_duration) == dec(round_dec(old_duration, 1).units * 9, 2)

\* show_progress_menu after the session, whose object nothing refers to any
\* more: the table is read into the tree
ShowProgressMenu ==
    /\ session = NoSession
    /\ pc \in {"closed", "TclError"}
    /\ current_frame = "main_menu"
    /\ current_frame' = "progress"
    /\ pc' = "results"
    /\ class_name' = None /\ topic' = None /\ difficulty' = None /\ num_questions' = 0
    /\ questions' = <<>> /\ generated' = <<>> /\ all_questions' = <<>>
    /\ current_question_index' = 0 /\ time_left' = 0 /\ timer_id' = None
    /\ dialog' = NoDialog /\ feedbacks' = <<>>
    /\ UNCHANGED <<selected_schuljahr, session, toasts, rng, level, available, params, results,
                   fmtVars, heapVars, eqVars>>

\* simulate_edit_result with the row k selected: update_result and
\* load_results_to_tree
SimulateEditResult(k) ==
    /\ pc = "results"
    /\ k \in 1..Len(results)
    /\ results' = [results EXCEPT
                      ![k].correct_count = new_correct(@, results[k].total_count),
                      ![k].duration = new_duration(@)]
    /\ UNCHANGED <<appVars, genVars, testVars, level, available, params, questions,
                   current_question_index, time_left, timer_id, dialog, feedbacks,
                   fmtVars, heapVars, eqVars, pc>>

\* delete_selected_result with the row k selected and the confirmation
\* answered with yes: delete_result and load_results_to_tree
DeleteSelectedResult(k) ==
    /\ pc = "results"
    /\ k \in 1..Len(results)
    /\ results' = SubSeq(results, 1, k - 1) \o SubSeq(results, k + 1, Len(results))
    /\ UNCHANGED <<appVars, genVars, testVars, level, available, params, questions,
                   current_question_index, time_left, timer_id, dialog, feedbacks,
                   fmtVars, heapVars, eqVars, pc>>

NextResults ==
    \/ NextSession
    \/ ShowProgressMenu
    \/ \E k \in 1..2 : SimulateEditResult(k)
    \/ \E k \in 1..2 : DeleteSelectedResult(k)

SpecResults == InitSessions /\ [][NextResults]_vars

(***************************************************************************)
(* Claims about the results table.                                         *)
(***************************************************************************)

\* every row has 0 <= correct_count <= total_count and duration >= 0
RowsWithinBounds ==
    \A k \in 1..Len(results) :
        /\ 0 <= results[k].correct_count
        /\ results[k].correct_count <= results[k].total_count
        /\ results[k].duration.units >= 0

\* the row a session saves counts over the session's own questions
SavedOverOwnQuestions ==
    Len(results') = Len(results) + 1 =>
        /\ results'[Len(results')].total_count = Len(asked)
        /\ results'[Len(results')].correct_count <= Len(asked)

\* an edit leaves total_count as it is and raises correct_count by one, but
\* not above total_count
EditRaisesByOne ==
    pc = "results" /\ Len(results') = Len(results) =>
        \A k \in 1..Len(results) :
            /\ results'[k].total_count = results[k].total_count
            /\ \/ results'[k] = results[k]
               \/ results'[k].correct_count =
                      Min(results[k].correct_count + 1, results[k].total_count)

\* C29: after any sequence of finished sessions, simulated edits and
\* deletions every row of the results table has 0 <= correct_count <=
\* total_count and duration >= 0: a session saves correct_count counted over
\* its own question list of length total_count, and a simulated edit raises
\* correct_count by one, never above total_count, and leaves total_count.
C29_RowsWithinBounds ==
    [](RowsWithinBounds) /\ [][SavedOverOwnQuestions /\ EditRaisesByOne]_vars

\* a row saved with every answer right has been edited: correct_count has
\* stayed at total_count and the duration has gone down by a tenth
C29_Witness ==
    /\ pc = "results"
    /\ Len(results) = 1
    /\ results[1].correct_count = SessionLength
    /\ results[1].total_count = SessionLength
    /\ results[1].duration.places = 2 /\ results[1].duration.units > 0

(***************************************************************************)
(* The loop of _gen_text_linear_eq.  The prices, the items and the four    *)
(* quantities have been drawn (nine values with the choice of the task);   *)
(* the loop draws a2 again as long as the two equations are dependent.     *)
(* rng.drawn counts the values drawn, up to MaxRedraws more.               *)
(***************************************************************************)

\* the number of redraws of a2 that rng.drawn counts
MaxRedraws == 3

\* the values drawn when the loop is reached: the task, two prices, two items
\* and four quantities
DrawnBeforeLoop == 9

\* the labels at which _generate_textaufgaben can choose _gen_text_linear_eq
LinearEqLabels == {KlasseLabel(9, 1), KlasseLabel(10, 2)}

\* a loop condition that never holds
linearly_dependent_never(q1, q2, r1, r2) == FALSE

\* the condition of the while loop, (a1/a2) == (b1/b2): the two quotients of
\* quantities from 2 to 5 are the same float exactly when they are the same
\* fraction
linearly_dependent(q1, q2, r1, r2) == q1 * r2 = r1 * q2

InitLinearEq ==
    /\ NoSessionWindow /\ NoNumber /\ NoHeap
    /\ x_price \in {linear_eq_x_price(r) : r \in RandDraws}
    /\ y_price \in {linear_eq_y_price(r) : r \in RandDraws}
    /\ class_name \in LinearEqLabels
    /\ topic = "Textaufgaben"
    /\ difficulty = "Leicht"
    /\ num_questions = 1
    /\ selected_schuljahr = class_name
    /\ current_frame = None /\ session = NoSession /\ toasts = 0
    /\ pc = "while"
    /\ level = None /\ available = None /\ params = None
    /\ questions = <<>> /\ generated = <<>> /\ all_questions = <<>>
    /\ rng = [seed |-> 0, drawn |-> DrawnBeforeLoop]
    /\ a1 \in 2..5 /\ b1 \in 2..5 /\ a2 \in 2..5 /\ b2 \in 2..5

\* a pass of the while loop: a2 = random.randint(2, 5)
RedrawA2 ==
    /\ pc = "while"
    /\ linearly_dependent(a1, a2, b1, b2)
    /\ \E drawn \in 2..5 : a2' = drawn
    /\ rng' = [rng EXCEPT !.drawn = Min(@ + 1, DrawnBeforeLoop + MaxRedraws)]
    /\ UNCHANGED <<sessVars, fmtVars, heapVars, appVars, genVars, generated, all_questions,
                   level, available, params, questions, pc, a1, b1, b2, x_price, y_price>>

\* the loop is left and the question returned and appended
ReturnLinearEq ==
    /\ pc = "while"
    /\ ~linearly_dependent(a1, a2, b1, b2)
    /\ LET r == linear_eq_question(x_price, y_price)
       IN  questions' = <<[id |-> 1, topic |-> topic, difficulty |-> difficulty,
                           kind |-> r.kind, nums |-> r.nums, ops |-> <<>>, vals |-> <<>>,
                           correct_answer |-> r.answer, user_answer |-> NoAnswer,
                           steps_result |-> r.answer, drawing_info |-> r.drawing_info]>>
    /\ pc' = "generated"
    /\ UNCHANGED <<sessVars, fmtVars, heapVars, eqVars, appVars, genVars, testVars, level,
                   available, params>>

NextLinearEq == RedrawA2 \/ ReturnLinearEq

SpecLinearEq == InitLinearEq /\ [][NextLinearEq]_vars

\* fair draws: a2 is not drawn the same for ever, and the generator goes on
SpecLinearEqFair == SpecLinearEq /\ WF_vars(RedrawA2) /\ WF_vars(ReturnLinearEq)

(***************************************************************************)
(* Claims about the linear system of the word problem.                     *)
(***************************************************************************)

\* the totals of the two purchases, in hundredths
c1 == a1 * x_price.units + b1 * y_price.units
c2 == a2 * x_price.units + b2 * y_price.units

\* the quantities shown are from 2 to 5, the two equations are independent
\* and the answer is the x of their single solution (Cramer's rule)
IndependentSystem ==
    pc = "generated" =>
        /\ {a1, b1, a2, b2} \subseteq 2..5
        /\ a1 * b2 - a2 * b1 # 0
        /\ questions[1].correct_answer = x_price
        /\ (c1 * b2 - c2 * b1) = questions[1].correct_answer.units * (a1 * b2 - a2 * b1)

\* C30: the loop of the linear-system word problem terminates (under fair
\* draws of a2 from 2 to 5), and afterwards a1*b2 - a2*b1 is not 0 for the
\* quantities shown, all from 2 to 5, so that the system has the single
\* solution whose x is the answer.
C30_TerminatesIndependent == <>(pc = "generated") /\ [](IndependentSystem)

\* the question has been returned after a2 was drawn again twice
C30_Witness ==
    /\ pc = "generated"
    /\ rng.drawn = DrawnBeforeLoop + 2
    /\ a1 = b1 /\ a2 # b2
    /\ questions[1].kind = "linear_eq"

====
